---- MODULE Spec2Model ----
(***************************************************************************)
(* A model of chismaker (src/chismaker.py, src/device_adapter.py): the     *)
(* SuperChis frame codec, the four job plans (quality check, production,   *)
(* reset-NOR, backup) and the device supervisor of the main window.        *)
(*                                                                         *)
(* Seven specifications share the variables of this module:                *)
(*   SpecFrame  the command frames the driver writes to the serial port    *)
(*              and what its read calls return;                            *)
(*   SpecCmd    the flash command sequences of the driver (sector erase,   *)
(*              PPB unlock, CFI query) against scripted device answers;    *)
(*   Spec       one plan worker (QThread.run) on one device, with stop()   *)
(*              arriving from the main thread at any moment, and a backup  *)
(*              started after a production that ended with success;        *)
(*   SpecLive   the same plans under weak fairness of the worker thread,    *)
(*              on devices whose sector erase may never complete;          *)
(*   SpecSup    the main window: device map, job map, the queued signals   *)
(*              of the workers, start/cleanup/close handlers;              *)
(*   SpecBatch  the batch buttons on two devices: the single-shot timers   *)
(*              of the staggered starts and a clock in ticks of 250 ms;    *)
(*   SpecConfig the six quality-check options and their check boxes.       *)
(* A specification leaves the variables of the others at their idle        *)
(* values.                                                                 *)
(*                                                                         *)
(* Sizes are scaled so that the loops of the plans stay short; every       *)
(* scaled constant names the source value it stands for, and the scaling   *)
(* keeps the divisibility of the source: the write chunk divides the read  *)
(* chunk, the read chunk divides 1 MiB, 1 MiB divides the 4 MiB bank, and  *)
(* eight banks make one 32 MiB segment.                                    *)
(***************************************************************************)
EXTENDS Integers, Sequences, FiniteSets, TLC

VARIABLES
    \* ---- SpecFrame: the serial port as the driver sees it
    wire,            \* the frames written to self.ser by the last driver call
    lastCall,        \* the driver call that wrote them
    \* ---- Spec: one plan worker and its device
    plan,            \* which worker class runs: "qa", "production", "reset", "backup"
    pc,              \* position of run()
    running,         \* self.running, the cancel flag (False = cancel requested)
    config,          \* QualityCheckConfig handed to the QA worker
    events,          \* progress_signal / finished_signal emissions, in order,
                     \* with the log lines of the steps that end a run
    rom_len,         \* length of the ROM file on disk
    file_size,       \* len(rom_data) after the even padding
    cfi,             \* the device's answer to the CFI query (v[0..9])
    sector_size, buffer_size, device_size, sector_count, total_size,
    current_segment, \* the plan's idea of the segment the mapping shows
    idx,             \* loop index i of the erase loops
    written, verified, read_bytes,
    current_test, test_count,
    test_regions,    \* QA fast flash: the (start, end) pairs
    region,          \* QA fast flash: index of the region being worked on
    qa_addr,         \* QA fast flash: addr of the verify loop
    mapping,         \* the mapping the device holds (last set_flashmapping)
    flash,           \* physical flash contents, one value per byte
    fault,           \* the device's defect, fixed for a run
    sink,            \* bytes written to the backup file
    access,          \* the last erase/program/read the plan issued
    cancel_at,       \* history: where run() was when stop() was called
    last_ack,        \* the acknowledgement the last programRom call read
    trail,           \* history: the mode and mapping writes and the flash
                     \* commands of the plan, runs of equal commands counted
    self_backup_size,\* self.backup_size of the backup worker
    prior,           \* history: the plan that ended with success before this one
    \* ---- SpecSup: the main window
    devices,         \* self.devices: port -> DeviceInfo or NoDevice
    workers,         \* self.workers: port -> job id or NoJob
    jobs,            \* every worker object created so far, by job id
    mainQ,           \* signals queued to the main thread, in emission order
    ui,              \* what the main thread is doing
    rom_file,        \* self.rom_file
    \* ---- SpecConfig: the quality-check options of the main window
    checks,          \* isChecked() of the six QCheckBox widgets
    global_log,      \* the lines log_global has appended
    \* ---- the scanner and the batch operations of the main window
    scanned,         \* the ports of the last devices_found signal processed
    timers,          \* pending QTimer.singleShot calls: port, kind, due time
    now,             \* the clock, in units of TimeUnit milliseconds
    starts           \* history: the worker.start() calls of the batches

frameVars == <<wire, lastCall>>
planVars  == <<plan, pc, running, config, events, rom_len, file_size, cfi,
               sector_size, buffer_size, device_size, sector_count, total_size,
               current_segment, idx, written, verified, read_bytes,
               current_test, test_count, test_regions, region, qa_addr,
               mapping, flash, fault, sink, access, cancel_at, last_ack,
               trail, self_backup_size, prior>>
supVars   == <<devices, workers, jobs, mainQ, ui, rom_file>>
cfgVars   == <<checks, global_log>>
batchVars == <<scanned, timers, now, starts>>
vars      == <<frameVars, planVars, supVars, cfgVars, batchVars>>

----------------------------------------------------------------------------
(* Helpers *)

Min(a, b) == IF a < b THEN a ELSE b

RECURSIVE Pow2(_)
Pow2(n) == IF n = 0 THEN 1 ELSE 2 * Pow2(n - 1)

\* a run of n bytes b
Fill(n, b) == [k \in 1..n |-> b]

----------------------------------------------------------------------------
(* Frame codec: src/device_adapter.py *)

\* struct.pack("<H", n): two bytes, low byte first; struct.error outside u16
pack_H(n) == <<n % 256, (n \div 256) % 256>>
fits_H(n) == n >= 0 /\ n <= 65535

\* struct.pack("B", n)
pack_B(n) == <<n % 256>>

\* struct.pack("<I", n): four bytes, low byte first
pack_I(n) == <<n % 256, (n \div 256) % 256, (n \div 65536) % 256,
               (n \div 16777216) % 256>>

\* a payload argument is a Python int or a byte string
IntVal(n)   == [isint |-> TRUE, n |-> n, bytes |-> <<>>]
BytesVal(b) == [isint |-> FALSE, n |-> 0, bytes |-> b]
\* isinstance(dat, int)
IsInt(dat) == dat.isint

\* writeRom(addr_word, dat): opcode 0xf5, an int is packed as u16
writeRomFrame(addr_word, dat) ==
    LET d == IF IsInt(dat) THEN pack_H(dat.n) ELSE dat.bytes
    IN  pack_H(2 + 1 + 4 + Len(d) + 2) \o <<245>> \o pack_I(addr_word)
          \o d \o <<0, 0>>

\* readRom(addr_word, length_byte): opcode 0xf6, the address field is bytes
readRomFrame(addr_word, length_byte) ==
    pack_H(2 + 1 + 4 + 2 + 2) \o <<246>> \o pack_I(addr_word * 2)
      \o pack_H(length_byte) \o <<0, 0>>

\* writeRam(addr, dat): opcode 0xf7, an int is packed as one byte
writeRamFrame(addr, dat) ==
    LET d == IF IsInt(dat) THEN pack_B(dat.n) ELSE dat.bytes
    IN  pack_H(2 + 1 + 4 + Len(d) + 2) \o <<247>> \o pack_I(addr)
          \o d \o <<0, 0>>

\* readRam(addr, length_byte): opcode 0xf8
readRamFrame(addr, length_byte) ==
    pack_H(2 + 1 + 4 + 2 + 2) \o <<248>> \o pack_I(addr)
      \o pack_H(length_byte) \o <<0, 0>>

\* programRom with the size of a writeRom frame: the two bytes of the
\* bufferWriteBytes field are not counted
programRomFrameShort(addr_byte, data, buffer_write_bytes) ==
    LET d == IF IsInt(data) THEN pack_H(data.n) ELSE data.bytes
    IN  pack_H(2 + 1 + 4 + Len(d) + 2) \o <<244>> \o pack_I(addr_byte)
          \o pack_H(buffer_write_bytes) \o d \o <<0, 0>>

\* programRom(addr_byte, data, buffer_write_bytes): opcode 0xf4
programRomFrame(addr_byte, data, buffer_write_bytes) ==
    LET d == IF IsInt(data) THEN pack_H(data.n) ELSE data.bytes
    IN  pack_H(2 + 1 + 4 + 2 + Len(d) + 2) \o <<244>> \o pack_I(addr_byte)
          \o pack_H(buffer_write_bytes) \o d \o <<0, 0>>


\* what one driver call writes to self.ser: struct.error (a field that does
\* not fit) is raised while cmd is built, before self.ser.write
writeRom(addr_word, dat) ==
    LET d == IF IsInt(dat) THEN pack_H(dat.n) ELSE dat.bytes
    IN  IF fits_H(2 + 1 + 4 + Len(d) + 2)
           /\ (IsInt(dat) => fits_H(dat.n))
        THEN <<writeRomFrame(addr_word, dat)>> ELSE <<>>

readRom(addr_word, length_byte) ==
    IF fits_H(length_byte)
    THEN <<readRomFrame(addr_word, length_byte)>> ELSE <<>>

writeRam(addr, dat) ==
    LET d == IF IsInt(dat) THEN pack_B(dat.n) ELSE dat.bytes
    IN  IF fits_H(2 + 1 + 4 + Len(d) + 2)
           /\ (IsInt(dat) => dat.n >= 0 /\ dat.n <= 255)
        THEN <<writeRamFrame(addr, dat)>> ELSE <<>>

readRam(addr, length_byte) ==
    IF fits_H(length_byte)
    THEN <<readRamFrame(addr, length_byte)>> ELSE <<>>

\* ack = self.ser.read(1): one byte, or nothing when the read timed out
AckBytes == {<<170>>, <<0>>, <<>>}

\* the acknowledgement accepted although it is not 0xAA
programRomOkAny(ack) == ack # <<>>

\* programRom: return ack == b'\xaa'
programRomOk(ack) == ack = <<170>>

programRom(addr_byte, data, buffer_write_bytes) ==
    LET d == IF IsInt(data) THEN pack_H(data.n) ELSE data.bytes
    IN  IF fits_H(2 + 1 + 4 + 2 + Len(d) + 2)
           /\ fits_H(buffer_write_bytes) /\ (IsInt(data) => fits_H(data.n))
        THEN <<programRomFrame(addr_byte, data, buffer_write_bytes)>> ELSE <<>>

----------------------------------------------------------------------------
(* SpecFrame: every driver call, on sampled arguments *)

MaxSmallPayload == 4

\* payload lengths: the short ones, those around the first size that needs the
\* high byte of the size field (2+1+4+247+2 = 256), and the 2048-byte chunk
FramePayloadLens == (0 .. MaxSmallPayload) \cup {246, 247, 248, 1024, 2048}
FramePayloads == {BytesVal(Fill(n, b)) : n \in FramePayloadLens, b \in {0, 255}}
                   \cup {BytesVal(<<170, 85, 18, 52>>)}
FrameInts     == {IntVal(n) : n \in {0, 85, 240, 42330, 65535}}
FrameAddrs    == {0, 1365, 16777215, 1048576}
FrameLengths  == {0, 2, 20, 512, 4096, 65535, 65536}
FrameBufSizes == {0, 32, 512}

\* respon = self.ser.read(k): at most k bytes, fewer when the read timed
\* out.  Byte i of a response is i % 256, so that a slice shows where it was cut.
SerRead(r) == [i \in 1..r |-> i % 256]
\* the longest response that is modelled in full: one 4096-byte chunk
MaxResponse == 4098
\* the lengths a read of k bytes is tried with
SerReadLens(k) ==
    {r \in {0, 1, 2, k - 1, k} : r >= 0 /\ r <= k /\ r <= MaxResponse}

\* readRom / readRam: return respon[2:]
readRomReturn(respon) == SubSeq(respon, 3, Len(respon))

MAGIC_ADDRESS == 33554430         \* 0x01FFFFFE
MAGIC_VALUE == 42330              \* 0xA55A
MAGIC_FLASH_MAP_VALUE == 42328    \* 0xA558

\* a | b on naturals
RECURSIVE BitOr(_, _)
BitOr(a, b) ==
    IF a = 0 THEN b
    ELSE IF b = 0 THEN a
    ELSE (IF a % 2 = 1 \/ b % 2 = 1 THEN 1 ELSE 0)
           + 2 * BitOr(a \div 2, b \div 2)

\* consecutive self.writeRom(addr_word, v) calls: what reaches the port; a
\* struct.error ends the sequence
RECURSIVE writeRomSeq(_, _)
writeRomSeq(addr_word, values) ==
    IF values = <<>> THEN <<>>
    ELSE LET w == writeRom(addr_word, IntVal(Head(values)))
         IN  IF w = <<>> THEN <<>>
             ELSE w \o writeRomSeq(addr_word, Tail(values))

\* config1 with ctrl left in the low nibble
config1Unshifted(sdram, sd_enable, write_enable, sram_bank, ctrl) ==
    BitOr(ctrl, BitOr(sdram, BitOr(sd_enable * 2,
                                   BitOr(write_enable * 4, sram_bank * 8))))

\* config1 = (ctrl << 4) | (sdram | (sd_enable << 1) | (write_enable << 2)
\*                                | (sram_bank << 3))
config1(sdram, sd_enable, write_enable, sram_bank, ctrl) ==
    BitOr(ctrl * 16, BitOr(sdram, BitOr(sd_enable * 2,
                                        BitOr(write_enable * 4, sram_bank * 8))))

\* set_sc_mode: the unlock value twice, then config1 twice
set_sc_mode(sdram, sd_enable, write_enable, sram_bank, ctrl) ==
    LET c == config1(sdram, sd_enable, write_enable, sram_bank, ctrl)
    IN  writeRomSeq(MAGIC_ADDRESS \div 2, <<MAGIC_VALUE, MAGIC_VALUE, c, c>>)

\* one pass of the loop with the entry written once
flashmapping_entry_once(v) == <<MAGIC_FLASH_MAP_VALUE, MAGIC_FLASH_MAP_VALUE, v>>

\* one pass of "for i in range(8)": the values of its four writeRom calls
flashmapping_entry(v) ==
    <<MAGIC_FLASH_MAP_VALUE, MAGIC_FLASH_MAP_VALUE, v, v>>

RECURSIVE flashmapping_values(_, _)
flashmapping_values(m, i) ==
    IF i > 8 THEN <<>>
    ELSE flashmapping_entry(m[i]) \o flashmapping_values(m, i + 1)

\* set_flashmapping: ValueError before the first write unless len(mapping) = 8
set_flashmapping(m) ==
    IF Len(m) # 8 THEN <<>>
    ELSE writeRomSeq(MAGIC_ADDRESS \div 2, flashmapping_values(m, 1))

\* ---- the flash command sequences of the driver

\* struct.unpack("<H", b)[0]; struct.error unless b has two bytes
unpack_H(b) == b[1] + 256 * b[2]
unpacks_H(b) == Len(b) = 2

\* consecutive self.writeRom(addr_word, value) calls with their own addresses
RECURSIVE writeRoms(_)
writeRoms(cmds) ==
    IF cmds = <<>> THEN <<>>
    ELSE writeRom(Head(cmds)[1], IntVal(Head(cmds)[2])) \o writeRoms(Tail(cmds))

\* the script of a device: its responses to the reads of a poll loop, in
\* order.  The loop takes them until one ends it; the first that does:
FirstOf(S) == IF S = {} THEN 0 ELSE CHOOSE k \in S : \A j \in S : k <= j

\* the erase poll that accepts a word whose low byte is 0xff
eraseDoneLowByte(word) == word % 256 = 255

\* eraseSector, line 213: struct.unpack("<H", data)[0] == 0xffff
eraseDone(word) == word = 65535

\* the polls of eraseSector that end the loop: the word is 0xffff (break) or
\* the payload is not two bytes (struct.error)
eraseSectorEnds(answers) ==
    {k \in 1 .. Len(answers) :
        \/ ~unpacks_H(readRomReturn(answers[k]))
        \/ eraseDone(unpack_H(readRomReturn(answers[k])))}

\* the number of readRom calls eraseSector makes against a script
eraseSectorPolls(answers) ==
    IF eraseSectorEnds(answers) = {} THEN Len(answers)
    ELSE FirstOf(eraseSectorEnds(answers))

\* how eraseSector ends against a script: "returned", "raised", or "polling"
\* when the script is used up and the loop goes on
eraseSectorEnd(answers) ==
    LET k == FirstOf(eraseSectorEnds(answers))
    IN  IF k = 0 THEN "polling"
        ELSE IF unpacks_H(readRomReturn(answers[k])) THEN "returned"
        ELSE "raised"

\* eraseSector(addr_word, sector_size_words), lines 201-217: what reaches the
\* port
eraseSector(addr_word, answers) ==
    writeRoms(<<<<1365, 170>>, <<682, 85>>, <<1365, 128>>,
                <<1365, 170>>, <<682, 85>>, <<addr_word, 48>>>>)
    \o [k \in 1 .. eraseSectorPolls(answers) |-> readRomFrame(addr_word, 2)]

\* the PPB poll that accepts any status that is not zero
ppbDoneAny(word) == word # 0

\* unlockPPB, line 264: struct.unpack("<H", status)[0] & 0x80
ppbDone(word) == (word \div 128) % 2 = 1

unlockPPBEnds(answers) ==
    {k \in 1 .. Len(answers) :
        \/ ~unpacks_H(readRomReturn(answers[k]))
        \/ ppbDone(unpack_H(readRomReturn(answers[k])))}

unlockPPBPolls(answers) ==
    IF unlockPPBEnds(answers) = {} THEN Len(answers)
    ELSE FirstOf(unlockPPBEnds(answers))

unlockPPBEnd(answers) ==
    LET k == FirstOf(unlockPPBEnds(answers))
    IN  IF k = 0 THEN "polling"
        ELSE IF unpacks_H(readRomReturn(answers[k])) THEN "returned"
        ELSE "raised"

RECURSIVE unlockPPBPollFrames(_)
\* n passes of the poll loop: writeRom(0x555, 0x70), readRom(0, 2)
unlockPPBPollFrames(n) ==
    IF n = 0 THEN <<>>
    ELSE writeRom(1365, IntVal(112)) \o <<readRomFrame(0, 2)>>
           \o unlockPPBPollFrames(n - 1)

\* unlockPPB, lines 250-273: what reaches the port
unlockPPB(answers) ==
    set_flashmapping(<<0, 1, 2, 3, 4, 5, 6, 7>>)
    \o writeRoms(<<<<1365, 170>>, <<682, 85>>, <<1365, 192>>,
                   <<0, 128>>, <<0, 48>>>>)
    \o unlockPPBPollFrames(unlockPPBPolls(answers))
    \o (IF unlockPPBEnd(answers) = "returned"
        THEN writeRoms(<<<<0, 144>>, <<0, 0>>, <<0, 240>>>>) ELSE <<>>)

\* getRomCFI, lines 139-141: what reaches the port
getRomCFIFrames ==
    writeRom(85, IntVal(152)) \o <<readRomFrame(39, 20)>>
      \o writeRom(0, IntVal(240))

\* the 16-bit values of cfi[0:2] .. cfi[18:20]; a slice of a short answer
\* has fewer than two bytes and struct.unpack raises
CfiWords(b) == [i \in 1 .. 10 |-> unpack_H(SubSeq(b, 2 * i - 1, 2 * i))]

\* 256, the unit of the CFI sector size (scaled, as the sizes of the plans)
SectorUnit == 2

\* the decoding without the "& 0xff" of the sector fields
getRomCFIUnmasked(v) ==
    [device_size        |-> Pow2(v[1]),
     buffer_write_bytes |-> IF v[4] # 0 THEN Pow2(v[4]) ELSE 0,
     sector_count       |-> ((v[8] * 256) + v[7]) + 1,
     sector_size        |-> ((v[10] * 256) + v[9]) * SectorUnit]

\* getRomCFI, lines 143-162: the 20 bytes read as v[0..9] (here v[1..10])
getRomCFI(v) ==
    [device_size        |-> Pow2(v[1]),
     buffer_write_bytes |-> IF v[4] # 0 THEN Pow2(v[4]) ELSE 0,
     sector_count       |-> (((v[8] % 256) * 256) + (v[7] % 256)) + 1,
     sector_size        |-> (((v[10] % 256) * 256) + (v[9] % 256)) * SectorUnit]

\* the arguments set_sc_mode is called with: flags, the two SRAM banks, and
\* the ctrl values of the callers (0x8, 0xF ^ (1 << 3)) and all ones
ScFlags == {0, 1}
ScCtrls == {8, 7, 15}

\* mappings: those of the plans, and lists that are not eight long
FrameMappings ==
    {[i \in 1..8 |-> i - 1], [i \in 1..8 |-> 8 + i - 1],
     [i \in 1..8 |-> 24 + i - 1], [i \in 1..8 |-> 0],
     <<>>, <<0, 1, 2>>, [i \in 1..7 |-> i - 1], [i \in 1..9 |-> i - 1]}

NoCall == [op |-> "none", addr |-> 0, data |-> BytesVal(<<>>), n |-> 0,
           bwb |-> 0, args |-> <<>>, respon |-> <<>>, ret |-> <<>>,
           ok |-> FALSE, raised |-> FALSE]

FrameIdle == wire = <<>> /\ lastCall = NoCall

F_writeRom ==
    /\ \E a \in FrameAddrs, d \in FramePayloads \cup FrameInts :
          /\ wire' = writeRom(a, d)
          /\ lastCall' = [NoCall EXCEPT !.op = "writeRom", !.addr = a, !.data = d,
                                        !.raised = (writeRom(a, d) = <<>>)]
    /\ UNCHANGED <<planVars, supVars, cfgVars, batchVars>>

F_readRom ==
    /\ \E a \in FrameAddrs, n \in FrameLengths :
          IF readRom(a, n) = <<>>
          THEN /\ wire' = <<>>
               /\ lastCall' = [NoCall EXCEPT !.op = "readRom", !.addr = a,
                                             !.n = n, !.raised = TRUE]
          ELSE \E r \in SerReadLens(n + 2) :
                 /\ wire' = readRom(a, n)
                 /\ lastCall' = [NoCall EXCEPT
                                   !.op = "readRom", !.addr = a, !.n = n,
                                   !.respon = SerRead(r),
                                   !.ret = readRomReturn(SerRead(r))]
    /\ UNCHANGED <<planVars, supVars, cfgVars, batchVars>>

F_writeRam ==
    /\ \E a \in FrameAddrs, d \in FramePayloads \cup FrameInts :
          /\ wire' = writeRam(a, d)
          /\ lastCall' = [NoCall EXCEPT !.op = "writeRam", !.addr = a, !.data = d,
                                        !.raised = (writeRam(a, d) = <<>>)]
    /\ UNCHANGED <<planVars, supVars, cfgVars, batchVars>>

F_readRam ==
    /\ \E a \in FrameAddrs, n \in FrameLengths :
          IF readRam(a, n) = <<>>
          THEN /\ wire' = <<>>
               /\ lastCall' = [NoCall EXCEPT !.op = "readRam", !.addr = a,
                                             !.n = n, !.raised = TRUE]
          ELSE \E r \in SerReadLens(n + 2) :
                 /\ wire' = readRam(a, n)
                 /\ lastCall' = [NoCall EXCEPT
                                   !.op = "readRam", !.addr = a, !.n = n,
                                   !.respon = SerRead(r),
                                   !.ret = readRomReturn(SerRead(r))]
    /\ UNCHANGED <<planVars, supVars, cfgVars, batchVars>>

F_programRom ==
    /\ \E a \in FrameAddrs, d \in FramePayloads, b \in FrameBufSizes :
          /\ wire' = programRom(a, d, b)
          /\ lastCall' = [NoCall EXCEPT !.op = "programRom", !.addr = a,
                                        !.data = d, !.bwb = b,
                                        !.raised = (programRom(a, d, b) = <<>>)]
    /\ UNCHANGED <<planVars, supVars, cfgVars, batchVars>>

F_set_sc_mode ==
    /\ \E sdram \in ScFlags, sd_enable \in ScFlags, write_enable \in ScFlags,
          sram_bank \in ScFlags, ctrl \in ScCtrls :
          /\ wire' = set_sc_mode(sdram, sd_enable, write_enable, sram_bank, ctrl)
          /\ lastCall' = [NoCall EXCEPT
                            !.op = "set_sc_mode",
                            !.args = <<sdram, sd_enable, write_enable,
                                       sram_bank, ctrl>>,
                            !.ok = TRUE]
    /\ UNCHANGED <<planVars, supVars, cfgVars, batchVars>>

F_set_flashmapping ==
    /\ \E m \in FrameMappings :
          /\ wire' = set_flashmapping(m)
          /\ lastCall' = [NoCall EXCEPT !.op = "set_flashmapping", !.args = m,
                                        !.ok = (Len(m) = 8),
                                        !.raised = (Len(m) # 8)]
    /\ UNCHANGED <<planVars, supVars, cfgVars, batchVars>>

\* ---- the flash command sequences against a device script (SpecCmd): each
\* call is recorded on its own, the record is cleared before the next one

\* the longest script of poll responses
MaxPolls == 3
\* status and data words a poll may read
PollWords == {0, 128, 255, 65407, 65535}
\* a response to readRom(a, 2): two leading bytes and the word, or a read that
\* timed out
PollResponse(w) == <<170, 85>> \o pack_H(w)
PollResponses == {PollResponse(w) : w \in PollWords} \cup {<<>>, <<170, 85, 255>>}
PollScripts == UNION {[1 .. n -> PollResponses] : n \in 1 .. MaxPolls}
\* sector addresses (words): the first sector, the metadata window, the last
\* sector of a segment
EraseAddrs == {0, 1048576, 16711680}

F_eraseSector ==
    /\ FrameIdle
    /\ \E a \in EraseAddrs, answers \in PollScripts :
          /\ wire' = eraseSector(a, answers)
          /\ lastCall' = [NoCall EXCEPT
                            !.op = "eraseSector", !.addr = a,
                            !.args = answers,
                            !.n = eraseSectorPolls(answers),
                            !.ok = (eraseSectorEnd(answers) = "returned"),
                            !.raised = (eraseSectorEnd(answers) = "raised")]
    /\ UNCHANGED <<planVars, supVars, cfgVars, batchVars>>

F_unlockPPB ==
    /\ FrameIdle
    /\ \E answers \in PollScripts :
          /\ wire' = unlockPPB(answers)
          /\ lastCall' = [NoCall EXCEPT
                            !.op = "unlockPPB",
                            !.args = answers,
                            !.n = unlockPPBPolls(answers),
                            !.ok = (unlockPPBEnd(answers) = "returned"),
                            !.raised = (unlockPPBEnd(answers) = "raised")]
    /\ UNCHANGED <<planVars, supVars, cfgVars, batchVars>>

\* the fields of a CFI answer: exponents, and sector fields with and without
\* bits above the low byte
CfiExponents == {0, 5, 10, 26}
CfiFields == {0, 128, 511}
CfiPayload(v) ==
    pack_H(v[1]) \o <<0, 0, 0, 0>> \o pack_H(v[2]) \o <<0, 0, 0, 0>>
      \o pack_H(v[3]) \o pack_H(v[4]) \o pack_H(v[5]) \o pack_H(v[6])
CfiResponses ==
    {<<170, 85>> \o CfiPayload(<<d, b, c1, c2, s1, s2>>) :
        d \in CfiExponents, b \in {0, 5}, c1 \in CfiFields, c2 \in {0, 511},
        s1 \in CfiFields, s2 \in {0, 511}}
    \cup {<<>>, <<170, 85>> \o Fill(19, 1)}

\* getRomCFI: the three commands are sent before the answer is decoded
F_getRomCFI ==
    /\ FrameIdle
    /\ \E r \in CfiResponses :
          LET cfi_bytes == readRomReturn(r)
          IN  /\ wire' = getRomCFIFrames
              /\ lastCall' =
                   IF Len(cfi_bytes) < 20
                   THEN [NoCall EXCEPT !.op = "getRomCFI", !.respon = r,
                                       !.raised = TRUE]
                   ELSE LET info == getRomCFI(CfiWords(cfi_bytes))
                        IN  [NoCall EXCEPT
                               !.op = "getRomCFI", !.respon = r, !.ok = TRUE,
                               !.ret = <<info.device_size, info.sector_count,
                                         info.sector_size,
                                         info.buffer_write_bytes>>]
    /\ UNCHANGED <<planVars, supVars, cfgVars, batchVars>>


----------------------------------------------------------------------------
(* The plans: src/chismaker.py.  Scaled program constants. *)

\* write_chunk_size = 2048 (ProductionWorker.run)
write_chunk_size == 4
\* verify_chunk_size = 4096 (ProductionWorker.run)
verify_chunk_size == 8
\* read_chunk_size = 4096 (BackupFlashWorker.run)
read_chunk_size == 8
\* 1024 * 1024
MiB == 16
\* segment_size = 32 * 1024 * 1024
segment_size == 32 * MiB
\* one mapping entry exposes a bank of segment_size / 8 bytes (4 MiB)
BankSize == segment_size \div 8
\* backup_size: int = 128 * 1024 * 1024 (BackupFlashWorker.__init__)
backup_size == 128 * MiB
\* ROM_OFF_FLASHMETA = 0x00200000, FLASH_METADATA_SIZE = 0x00200000
ROM_OFF_FLASHMETA == 2 * MiB
FLASH_METADATA_SIZE == 2 * MiB
\* the 512-byte blank probe of the reset-NOR and erase-blank checks
probe_size == 2

\* the physical flash of the device model: two segments
FlashBytes == 2 * segment_size
PhysAddrs == 0 .. (FlashBytes - 1)

Identity == <<0, 1, 2, 3, 4, 5, 6, 7>>

\* a segment switch that writes the identity mapping again
SegMappingStuck(current) == <<0, 1, 2, 3, 4, 5, 6, 7>>

\* the list the plans hand to set_flashmapping on a segment switch
SegMapping(current) ==
    LET mapping_offset == current * 8
    IN  <<0 + mapping_offset, 1 + mapping_offset, 2 + mapping_offset,
          3 + mapping_offset, 4 + mapping_offset, 5 + mapping_offset,
          6 + mapping_offset, 7 + mapping_offset>>

\* events
Progress(n) == [type |-> "Progress", pct |-> n, ok |-> FALSE]
Finished(b) == [type |-> "Finished", pct |-> 0, ok |-> b]
\* a log_signal emission; the log lines are recorded in the steps that end a
\* run, in the order in which the step emits them
Log == [type |-> "Log", pct |-> 0, ok |-> FALSE]

\* ---- the device the plans talk to

\* the physical byte an offset of the 32 MiB window is backed by
Phys(m, off) == m[(off \div BankSize) + 1] * BankSize + (off % BankSize)

RECURSIVE BitAnd(_, _)
BitAnd(a, b) ==
    IF a = 0 \/ b = 0 THEN 0
    ELSE (a % 2) * (b % 2) + 2 * BitAnd(a \div 2, b \div 2)

\* a sector erase at window offset off: the whole physical sector reads 0xFF
EraseSectorAt(f, m, off, ssize) ==
    LET base == (Phys(m, off) \div ssize) * ssize
    IN  [a \in PhysAddrs |-> IF a >= base /\ a < base + ssize THEN 255 ELSE f[a]]

\* a buffered program of chunk at window offset off: NOR programming clears
\* bits only; the defective cell (fault) does not take the program
ProgramAt(f, m, off, chunk) ==
    [a \in PhysAddrs |->
        IF \E k \in 1..Len(chunk) : off + k - 1 < segment_size
                                    /\ Phys(m, off + k - 1) = a /\ a # fault
        THEN LET k == CHOOSE k \in 1..Len(chunk) : Phys(m, off + k - 1) = a
             IN  BitAnd(f[a], chunk[k])
        ELSE f[a]]

\* the payload of a readRom of n bytes at window offset off
ReadAt(f, m, off, n) ==
    [k \in 1..n |->
        IF off + k - 1 < segment_size /\ Phys(m, off + k - 1) \in PhysAddrs
        THEN f[Phys(m, off + k - 1)] ELSE 255]

\* ---- the ROM image

\* rom_data as read from the file
ImageByte(k) == 1 + (k % 3)

\* rom_data after "rom_data += b'\x00'" for an odd file
RomData(k) == IF k < rom_len THEN ImageByte(k) ELSE 0

\* rom_data[lo:lo+n]
RomSlice(lo, n) == [k \in 1..Min(n, file_size - lo) |-> RomData(lo + k - 1)]

\* the chunk of an image whose odd length was not padded with 0x00
PaddedChunkUnpadded(lo) ==
    [k \in 1..write_chunk_size |->
        IF lo + k - 1 < rom_len THEN ImageByte(lo + k - 1) ELSE 255]

\* a chunk filled up with 0x00
PaddedChunkZeroFill(lo) ==
    [k \in 1..write_chunk_size |->
        IF lo + k - 1 < file_size THEN RomData(lo + k - 1) ELSE 0]

\* chunk, with "chunk += b'\xff' * (write_chunk_size - len(chunk))"
PaddedChunk(lo) ==
    [k \in 1..write_chunk_size |->
        IF lo + k - 1 < file_size THEN RomData(lo + k - 1) ELSE 255]

NoAccess == [op |-> "none", L |-> 0, addr |-> 0, unit |-> "word", map0 |-> 0]
Access(op, L, addr, unit, m) ==
    [op |-> op, L |-> L, addr |-> addr, unit |-> unit, map0 |-> m[1]]

NoCancel == [pc |-> "none", left |-> FALSE, programs |-> 0]
\* no programRom call has read an acknowledgement
NoAck == <<-1>>

----------------------------------------------------------------------------
(* Spec: the inputs of a run *)

MaxSmallRom == 9
MaxRomOver  == 2

Plans == {"qa", "production", "reset", "backup"}

\* the CFI answer of a device: size exponent, buffer exponent, sector-size field
CfiAnswer(dexp, bexp, sz) ==
    <<dexp, 0, 0, bexp, 0, 0, 255, 0, sz % 256, sz \div 256>>

OldByte == 90

BlankFlash == [a \in PhysAddrs |-> 255]
UsedFlash  == [a \in PhysAddrs |-> OldByte]

DefaultConfig ==
    [enable_sram_test |-> FALSE, enable_flash_erase |-> FALSE,
     enable_ppb_unlock |-> TRUE, enable_fast_flash |-> FALSE,
     enable_full_sram |-> TRUE, enable_ram_flash |-> FALSE]

\* production runs: every short image on every geometry, and the images around
\* one segment on two geometries
ProductionInputs ==
    [len : 0 .. MaxSmallRom, sz : {0, 1, 3, 4, 32},
     fault : {-1, 1}, flash : {BlankFlash, UsedFlash}]
    \cup
    [len : (segment_size - 1) .. (segment_size + MaxRomOver), sz : {4, 32},
     fault : {-1, segment_size + 1}, flash : {UsedFlash}]

PlanLocalsIdle ==
    /\ file_size = 0 /\ sector_size = 0 /\ buffer_size = 0 /\ device_size = 0
    /\ sector_count = 0 /\ total_size = 0 /\ current_segment = 0 /\ idx = 0
    /\ written = 0 /\ verified = 0 /\ read_bytes = 0
    /\ current_test = 0 /\ test_count = 0 /\ test_regions = <<>>
    /\ region = 0 /\ qa_addr = 0
    /\ sink = <<>> /\ access = NoAccess /\ cancel_at = NoCancel
    /\ events = <<>>
    /\ last_ack = NoAck /\ self_backup_size = backup_size /\ prior = "none"
    /\ trail = <<>>

InitProduction ==
    /\ plan = "production"
    /\ config = DefaultConfig
    /\ \E inp \in ProductionInputs :
          /\ rom_len = inp.len
          /\ cfi = CfiAnswer(10, 5, inp.sz)
          /\ fault = inp.fault
          /\ flash = inp.flash
    /\ mapping \in {Identity, SegMapping(1)}

PlanIdle ==
    /\ plan = "none" /\ pc = "idle" /\ running = TRUE /\ config = DefaultConfig
    /\ rom_len = 0 /\ cfi = CfiAnswer(0, 0, 0) /\ fault = -1
    /\ flash = <<>> /\ mapping = Identity
    /\ PlanLocalsIdle

SupIdle ==
    /\ devices = <<>> /\ workers = <<>> /\ jobs = <<>> /\ mainQ = <<>>
    /\ ui = [at |-> "none", port |-> "", kind |-> "", todo |-> <<>>]
    /\ rom_file = ""

\* init_ui: every check box shows the option it edits, nothing is logged
CfgIdle ==
    /\ checks = DefaultConfig
    /\ global_log = <<>>

\* no scan processed, no timer pending
BatchIdle ==
    /\ scanned = {} /\ timers = {} /\ now = 0 /\ starts = <<>>

----------------------------------------------------------------------------
(* Steps shared by the plans *)

Emit(es) == events' = events \o es

\* a device whose flash never reports an erase as complete (a value of fault)
Stuck == -2
EraseHangs == fault = Stuck

\* an except clause that reports the failure before it logs it
RaiseLogLast == /\ Emit(<<Finished(FALSE), Log>>) /\ pc' = "done"

\* the except clause of run(): log, finished_signal.emit(port, False)
Raise == /\ Emit(<<Log, Finished(FALSE)>>) /\ pc' = "done"

\* a quality check that runs every step
QaStepEnabledAll(step) == TRUE

\* the guard of a quality-check step, without "and self.running"
QaStepEnabled(step) ==
    IF step = 1 THEN config.enable_sram_test
    ELSE IF step = 2 THEN config.enable_full_sram
    ELSE IF step = 3 THEN config.enable_ppb_unlock
    ELSE IF step = 4 THEN config.enable_flash_erase \/ config.enable_fast_flash
    ELSE config.enable_ram_flash

\* the first step of the quality check whose guard is still to be evaluated
QaRank(at) ==
    IF at \in {"start", "qa_sram"} THEN 1
    ELSE IF at = "qa_full" THEN 2
    ELSE IF at = "qa_ppb" THEN 3
    ELSE IF at = "qa_flash" THEN 4
    ELSE IF at \in {"qa_fast_erase", "qa_fast_verify", "qa_ram"} THEN 5
    ELSE 6

\* one more command on the trail: a mapping write (key: its first entry) or
\* a flash command (key: the segment of its linear offset, data: the
\* payload of a program command)
Cmd(op, key, data) == [op |-> op, key |-> key, n |-> 1, data |-> data]
TrailAdd(t, op, key, data) ==
    IF t # <<>> /\ t[Len(t)].op = op /\ t[Len(t)].key = key
    THEN [t EXCEPT ![Len(t)].n = @ + 1, ![Len(t)].data = data]
    ELSE Append(t, Cmd(op, key, data))
\* set_flashmapping(m)
TrailMap(t, m) == TrailAdd(t, "map", m[1], <<>>)
\* a command whose argument is kept: data lists the arguments of the run
TrailArg(t, op, key, x) ==
    LET sofar == IF t # <<>> /\ t[Len(t)].op = op /\ t[Len(t)].key = key
                 THEN t[Len(t)].data ELSE <<>>
    IN  TrailAdd(t, op, key, Append(sofar, x))
\* the mapping write of a loop pass, when the segment changes
TrailSwitch(t, new_segment) ==
    IF new_segment # current_segment
    THEN TrailMap(t, SegMapping(new_segment)) ELSE t

RECURSIVE TrailCount(_, _)
\* the number of commands of a kind on a trail
TrailCount(t, op) ==
    IF t = <<>> THEN 0
    ELSE (IF Head(t).op = op THEN Head(t).n ELSE 0) + TrailCount(Tail(t), op)

\* is there work the run has not done yet?
WorkLeft ==
    \/ pc = "erase" /\ idx < sector_count
    \/ pc \in {"program", "program_pass"} /\ written < file_size
    \/ pc = "verify" /\ verified < file_size
    \/ pc = "backup" /\ read_bytes < total_size
    \/ plan = "qa" /\ \E s \in QaRank(pc) .. 5 : QaStepEnabled(s)

\* stop(): self.running = False, called from the main thread while the
\* thread runs.  cancel_at records where run() was and how many program
\* commands it had sent (history only).
stop ==
    /\ pc \notin {"idle", "done"}
    /\ running
    /\ running' = FALSE
    /\ cancel_at' = [pc |-> pc, left |-> WorkLeft,
                     programs |-> TrailCount(trail, "program")]
    /\ UNCHANGED <<plan, pc, config, events, rom_len, file_size, cfi,
                   sector_size, buffer_size, device_size, sector_count,
                   total_size, current_segment, idx, written, verified,
                   read_bytes, current_test, test_count, test_regions, region,
                   qa_addr, mapping, flash, fault, sink, access, last_ack,
                   trail, self_backup_size, prior>>
    /\ UNCHANGED <<frameVars, supVars, cfgVars, batchVars>>

----------------------------------------------------------------------------
(* ProductionWorker.run *)

prodFrameAck == <<plan, running, config, rom_len, cfi, fault, cancel_at,
                  device_size, total_size, read_bytes, current_test,
                  test_count, test_regions, region, qa_addr, sink, frameVars,
                  supVars, cfgVars, batchVars, self_backup_size, prior>>
prodFrame == <<prodFrameAck, last_ack>>

\* a sector count that leaves out the last, partial sector
SectorCountFloor(size, s) == size \div s

\* lines 544-545: addr_end = file_size - 1; (addr_end // sector_size) + 1
SectorCount(size, s) == ((size - 1) \div s) + 1

\* lines 515-548: read the file, pad to even, write mode, identity mapping,
\* CFI, sector_count
P_Begin ==
    /\ plan = "production" /\ pc = "start"
    /\ LET size == IF rom_len % 2 # 0 THEN rom_len + 1 ELSE rom_len
           info == getRomCFI(cfi)
       IN  \E exc \in BOOLEAN :
             IF exc \/ info.sector_size = 0
             THEN \* open() or the serial port raised (before or after the
                  \* mapping was written), or ZeroDivisionError at line 546
                  /\ Raise
                  /\ \E mapped \in BOOLEAN :
                        /\ ~exc => mapped
                        /\ mapping' = IF mapped THEN Identity ELSE mapping
                        /\ trail' = IF mapped THEN TrailMap(trail, Identity)
                                    ELSE trail
                  /\ UNCHANGED <<file_size, sector_size, buffer_size,
                                 sector_count, current_segment, idx>>
             ELSE /\ file_size' = size
                  /\ mapping' = Identity
                  /\ trail' = TrailMap(trail, Identity)
                  /\ sector_size' = info.sector_size
                  /\ buffer_size' = info.buffer_write_bytes
                  /\ sector_count' = SectorCount(size, info.sector_size)
                  /\ current_segment' = 0
                  /\ idx' = 0
                  /\ pc' = "erase"
                  /\ UNCHANGED events
    /\ UNCHANGED <<written, verified, flash, access>>
    /\ UNCHANGED prodFrame

\* a loop pass ends in the except clause: the serial port raised in
\* set_flashmapping (nothing was sent) or in the command after it
RaiseInPass(new_segment) ==
    /\ Raise
    /\ \E mapped \in BOOLEAN :
          /\ current_segment' = IF mapped THEN new_segment ELSE current_segment
          /\ mapping' = IF mapped /\ new_segment # current_segment
                        THEN SegMapping(new_segment) ELSE mapping
          /\ trail' = IF mapped THEN TrailSwitch(trail, new_segment) ELSE trail

\* lines 551-579: one pass of "for i in range(sector_count)"
\* progress is int((i + 1) / sector_count * 50): Python takes the quotient in
\* floating point, so its int() is the floor written here, or one less where
\* the product rounds to just under an integer (29 / 50 * 50)
P_EraseStep ==
    /\ plan = "production" /\ pc = "erase" /\ idx < sector_count
    /\ IF ~running
       THEN /\ Raise
            /\ UNCHANGED <<current_segment, mapping, flash, access, idx, trail>>
       ELSE IF EraseHangs
       THEN \* eraseSector does not come back from its poll loop
            /\ pc' = "erase_poll"
            /\ UNCHANGED <<events, current_segment, mapping, flash, access, idx,
                           trail>>
       ELSE LET addr == idx * sector_size
                new_segment == addr \div segment_size
                m == IF new_segment # current_segment
                     THEN SegMapping(new_segment) ELSE mapping
                offset_in_segment == addr % segment_size
            IN  \E exc \in BOOLEAN :
                  IF exc
                  THEN /\ RaiseInPass(new_segment)
                       /\ UNCHANGED <<flash, access, idx>>
                  ELSE /\ current_segment' = new_segment
                       /\ mapping' = m
                       /\ flash' = EraseSectorAt(flash, m,
                                       (offset_in_segment \div 2) * 2, sector_size)
                       /\ access' = Access("erase", addr,
                                           offset_in_segment \div 2, "word", m)
                       /\ trail' = TrailAdd(TrailSwitch(trail, new_segment),
                                            "erase", new_segment, <<>>)
                       /\ Emit(<<Progress(((idx + 1) * 50) \div sector_count)>>)
                       /\ idx' = idx + 1
                       /\ pc' = pc
    /\ UNCHANGED <<file_size, sector_size, buffer_size, sector_count,
                   written, verified>>
    /\ UNCHANGED prodFrame

\* lines 581-592: the erase loop is over; write mode and identity mapping again
P_EraseDone ==
    /\ plan = "production" /\ pc = "erase" /\ idx >= sector_count
    /\ \E exc \in BOOLEAN :
          IF exc
          THEN Raise /\ UNCHANGED <<mapping, written, current_segment, trail>>
          ELSE /\ mapping' = Identity
               /\ trail' = TrailMap(trail, Identity)
               /\ written' = 0
               /\ current_segment' = 0
               /\ pc' = "program"
               /\ UNCHANGED events
    /\ UNCHANGED <<file_size, sector_size, buffer_size, sector_count, idx,
                   verified, flash, access>>
    /\ UNCHANGED prodFrame

\* line 594: "while written < file_size and self.running" is true; stop()
\* may arrive before the pass sends its command
P_ProgramTest ==
    /\ plan = "production" /\ pc = "program"
    /\ written < file_size /\ running
    /\ pc' = "program_pass"
    /\ UNCHANGED <<events, file_size, sector_size, buffer_size, sector_count,
                   current_segment, idx, written, verified, mapping, flash,
                   access, trail>>
    /\ UNCHANGED prodFrame

\* lines 595-627: the pass of the program loop
\* (progress: the floor of the float expression, as in the erase loop)
P_ProgramStep ==
    /\ plan = "production" /\ pc = "program_pass"
    /\ LET new_segment == written \div segment_size
           m == IF new_segment # current_segment
                THEN SegMapping(new_segment) ELSE mapping
           offset_in_segment == written % segment_size
           chunk == PaddedChunk(written)
           sent == TrailAdd(TrailSwitch(trail, new_segment),
                            "program", new_segment, chunk)
       IN  \E exc \in BOOLEAN, ack \in AckBytes :
             IF exc
             THEN \* the serial port raised
                  /\ RaiseInPass(new_segment)
                  /\ last_ack' = NoAck
                  /\ UNCHANGED <<flash, access, written>>
             ELSE IF ~programRomOk(ack)
             THEN \* the command was sent; "if not result: raise"
                  /\ Raise
                  /\ last_ack' = ack
                  /\ current_segment' = new_segment
                  /\ mapping' = m
                  /\ trail' = sent
                  /\ UNCHANGED <<flash, access, written>>
             ELSE /\ last_ack' = ack
                  /\ current_segment' = new_segment
                  /\ mapping' = m
                  /\ flash' = ProgramAt(flash, m, offset_in_segment, chunk)
                  /\ access' = Access("program", written, offset_in_segment,
                                      "byte", m)
                  /\ trail' = sent
                  /\ written' = written + write_chunk_size
                  /\ Emit(<<Progress(50 + ((written + write_chunk_size) * 50)
                                            \div file_size)>>)
                  /\ pc' = "program"
    /\ UNCHANGED <<file_size, sector_size, buffer_size, sector_count, idx,
                   verified>>
    /\ UNCHANGED prodFrameAck

\* the while condition is false: the loop is left
P_ProgramExit ==
    /\ plan = "production" /\ pc = "program"
    /\ ~(written < file_size /\ running)
    /\ pc' = "program_exit"
    /\ UNCHANGED <<events, file_size, sector_size, buffer_size, sector_count,
                   current_segment, idx, written, verified, mapping, flash,
                   access, trail>>
    /\ UNCHANGED prodFrame

\* a program loop whose cancel goes unnoticed
ProgramCancelledIgnored(run) == FALSE

\* line 629: "if not self.running"
ProgramCancelled(run) == ~run

\* lines 629-640: "if not self.running" after the program loop, then the
\* identity mapping for the verify
P_AfterProgram ==
    /\ plan = "production" /\ pc = "program_exit"
    /\ IF ProgramCancelled(running)
       THEN Raise /\ UNCHANGED <<mapping, verified, current_segment, trail>>
       ELSE \E exc \in BOOLEAN :
              IF exc
              THEN Raise /\ UNCHANGED <<mapping, verified, current_segment, trail>>
              ELSE /\ mapping' = Identity
                   /\ trail' = TrailMap(trail, Identity)
                   /\ verified' = 0
                   /\ current_segment' = 0
                   /\ pc' = "verify"
                   /\ UNCHANGED events
    /\ UNCHANGED <<file_size, sector_size, buffer_size, sector_count, idx,
                   written, flash, access>>
    /\ UNCHANGED prodFrame

\* lines 642-671: one pass of "while verified < file_size and self.running"
P_VerifyStep ==
    /\ plan = "production" /\ pc = "verify"
    /\ verified < file_size /\ running
    /\ LET new_segment == verified \div segment_size
           m == IF new_segment # current_segment
                THEN SegMapping(new_segment) ELSE mapping
           offset_in_segment == verified % segment_size
           addr_word == offset_in_segment \div 2
           length == Min(verify_chunk_size, file_size - verified)
           expected == RomSlice(verified, length)
           actual == ReadAt(flash, m, addr_word * 2, length)
           sent == TrailAdd(TrailSwitch(trail, new_segment),
                            "read", new_segment, <<>>)
       IN  \E exc \in BOOLEAN :
             IF exc
             THEN \* the serial port raised, or the read came short
                  /\ RaiseInPass(new_segment)
                  /\ UNCHANGED <<access, verified>>
             ELSE IF actual # expected
             THEN \* the read was made; "if actual != expected"
                  /\ Raise
                  /\ current_segment' = new_segment
                  /\ mapping' = m
                  /\ trail' = sent
                  /\ UNCHANGED <<access, verified>>
             ELSE /\ current_segment' = new_segment
                  /\ mapping' = m
                  /\ access' = Access("read", verified, addr_word, "word", m)
                  /\ trail' = sent
                  /\ verified' = verified + length
                  /\ pc' = pc
                  /\ UNCHANGED events
    /\ UNCHANGED <<file_size, sector_size, buffer_size, sector_count, idx,
                   written, flash>>
    /\ UNCHANGED prodFrame

\* lines 673-675: the verify loop is left
P_VerifyExit ==
    /\ plan = "production" /\ pc = "verify"
    /\ ~(verified < file_size /\ running)
    /\ Emit(<<Log, Progress(100), Finished(TRUE)>>)
    /\ pc' = "done"
    /\ UNCHANGED <<file_size, sector_size, buffer_size, sector_count,
                   current_segment, idx, written, verified, mapping, flash,
                   access, trail>>
    /\ UNCHANGED prodFrame

ProductionNext ==
    \/ P_Begin \/ P_EraseStep \/ P_EraseDone \/ P_ProgramTest \/ P_ProgramStep
    \/ P_ProgramExit \/ P_AfterProgram \/ P_VerifyStep \/ P_VerifyExit

----------------------------------------------------------------------------
(* BackupFlashWorker.run *)

\* backups: a device smaller than 1 MiB, one of 4 MiB, one of 8 MiB and one of
\* two segments;
\* fault is the stream offset whose read times out and comes back empty
BackupInputs ==
    [dexp : {3}, fault : {-1, 0}]
    \cup [dexp : {6}, fault : {-1, 0, 3 * MiB}]
    \cup [dexp : {7}, fault : {-1}]
    \cup [dexp : {10}, fault : {-1, segment_size}]

InitBackup ==
    /\ plan = "backup"
    /\ config = DefaultConfig
    /\ rom_len = 0
    /\ \E inp \in BackupInputs :
          /\ cfi = CfiAnswer(inp.dexp, 5, 4)
          /\ fault = inp.fault
    /\ flash = [a \in PhysAddrs |-> ImageByte(a)]
    /\ mapping \in {Identity, SegMapping(1)}

backupFrame == <<plan, running, config, rom_len, cfi, fault, cancel_at,
                 file_size, sector_size, buffer_size, sector_count, idx,
                 written, verified, current_test, test_count, test_regions,
                 region, qa_addr, flash, frameVars, supVars, cfgVars, batchVars,
                 self_backup_size, prior, last_ack, trail>>

\* progress after every read
BackupProgressEveryRead(after, total) == after > 0 \/ total > 0

\* line 472: "if read_bytes % (1024 * 1024) == 0 or read_bytes >= total_size"
BackupProgressDue(after, total) == after % MiB = 0 \/ after >= total

\* lines 416-443: progress 0, read mode, identity mapping, CFI, open the file
B_Begin ==
    /\ plan = "backup" /\ pc = "start"
    /\ \E exc \in BOOLEAN :
          IF exc
          THEN /\ Emit(<<Log, Progress(0), Log, Finished(FALSE)>>)
               /\ pc' = "done"
               /\ UNCHANGED <<mapping, device_size, total_size, read_bytes,
                              current_segment, sink>>
          ELSE /\ Emit(<<Progress(0)>>)
               /\ mapping' = Identity
               /\ device_size' = getRomCFI(cfi).device_size
               /\ total_size' = Min(self_backup_size, getRomCFI(cfi).device_size)
               /\ sink' = <<>>
               /\ read_bytes' = 0
               /\ current_segment' = 0
               /\ pc' = "backup"
    /\ UNCHANGED access
    /\ UNCHANGED backupFrame

\* lines 445-476: one pass of "while read_bytes < total_size and self.running"
B_ReadStep ==
    /\ plan = "backup" /\ pc = "backup"
    /\ read_bytes < total_size /\ running
    /\ LET new_segment == read_bytes \div segment_size
           m == IF new_segment # current_segment
                THEN SegMapping(new_segment) ELSE mapping
           offset_in_segment == read_bytes % segment_size
           addr_word == offset_in_segment \div 2
           remaining == total_size - read_bytes
           chunk_size == Min(read_chunk_size, remaining)
           \* respon[2:] of a response that timed out is short, here empty
           data == IF fault = read_bytes THEN <<>>
                   ELSE ReadAt(flash, m, addr_word * 2, chunk_size)
           after == read_bytes + chunk_size
       IN  \E exc \in BOOLEAN :
             IF exc
             THEN /\ Raise
                  /\ UNCHANGED <<current_segment, mapping, access, sink, read_bytes>>
             ELSE /\ current_segment' = new_segment
                  /\ mapping' = m
                  /\ access' = Access("read", read_bytes, addr_word, "word", m)
                  /\ sink' = sink \o data
                  /\ read_bytes' = after
                  /\ IF BackupProgressDue(after, total_size)
                     THEN Emit(<<Progress((after * 100) \div total_size)>>)
                     ELSE UNCHANGED events
                  /\ pc' = pc
    /\ UNCHANGED <<device_size, total_size>>
    /\ UNCHANGED backupFrame

\* the while condition is false: the loop and the with block are left
B_LoopExit ==
    /\ plan = "backup" /\ pc = "backup"
    /\ ~(read_bytes < total_size /\ running)
    /\ pc' = "backup_exit"
    /\ UNCHANGED <<events, mapping, device_size, total_size, read_bytes,
                   current_segment, sink, access>>
    /\ UNCHANGED backupFrame

\* lines 478-485
B_After ==
    /\ plan = "backup" /\ pc = "backup_exit"
    /\ IF ~running
       THEN Emit(<<Log, Finished(FALSE)>>)
       ELSE Emit(<<Log, Progress(100), Finished(TRUE)>>)
    /\ pc' = "done"
    /\ UNCHANGED <<mapping, device_size, total_size, read_bytes,
                   current_segment, sink, access>>
    /\ UNCHANGED backupFrame

BackupNext == B_Begin \/ B_ReadStep \/ B_LoopExit \/ B_After

\* The operator's next job on the same device: after a production that ended
\* with success, BackupFlashWorker(device, file, backup_size=len(rom_data)) is
\* started.  The device keeps its flash and its mapping.
BackupAfterProduction ==
    /\ plan = "production" /\ pc = "done"
    /\ events # <<>> /\ events[Len(events)] = Finished(TRUE)
    /\ plan' = "backup" /\ pc' = "start"
    /\ running' = TRUE
    /\ self_backup_size' = file_size
    /\ prior' = "production"
    \* the locals of the production run are gone with its thread
    /\ events' = <<>> /\ cancel_at' = NoCancel /\ access' = NoAccess
    /\ last_ack' = NoAck /\ trail' = <<>>
    /\ sink' = <<>> /\ read_bytes' = 0 /\ total_size' = 0 /\ device_size' = 0
    /\ sector_size' = 0 /\ buffer_size' = 0 /\ sector_count' = 0 /\ idx' = 0
    /\ written' = 0 /\ verified' = 0 /\ current_segment' = 0
    /\ UNCHANGED <<config, rom_len, file_size, cfi, current_test, test_count,
                   test_regions, region, qa_addr, mapping, flash, fault>>
    /\ UNCHANGED <<frameVars, supVars, cfgVars, batchVars>>

----------------
(* ResetNorWorker.run, with SuperChisDevice.eraseFlashMetadata *)

ResetInputs == [sz : {0, 1, 4, 32}, flash : {BlankFlash, UsedFlash}]

InitReset ==
    /\ plan = "reset"
    /\ config = DefaultConfig
    /\ rom_len = 0
    /\ fault = -1
    /\ \E inp \in ResetInputs :
          /\ cfi = CfiAnswer(10, 5, inp.sz)
          /\ flash = inp.flash
    /\ mapping \in {Identity, SegMapping(1)}

resetFrame == <<plan, running, config, rom_len, cfi, fault, cancel_at,
                file_size, buffer_size, device_size, total_size,
                current_segment, written, verified, read_bytes, current_test,
                test_count, test_regions, region, qa_addr, sink,
                frameVars, supVars, cfgVars, batchVars, self_backup_size, prior,
                last_ack>>

\* lines 357-364: progress 10, write mode, identity mapping, progress 20
R_Begin ==
    /\ plan = "reset" /\ pc = "start"
    /\ \E exc \in BOOLEAN :
          IF exc
          THEN /\ Emit(<<Log, Progress(10), Log, Finished(FALSE)>>)
               /\ pc' = "done"
               /\ UNCHANGED <<mapping, trail>>
          ELSE /\ Emit(<<Progress(10), Progress(20)>>)
               /\ mapping' = Identity
               /\ trail' = TrailMap(TrailAdd(trail, "mode", 1, <<>>), Identity)
               /\ pc' = "reset_unlock"
    /\ UNCHANGED <<sector_size, sector_count, idx, flash, access>>
    /\ UNCHANGED resetFrame

\* lines 367-369: unlockPPB (it sets the identity mapping itself), progress 30
R_Unlock ==
    /\ plan = "reset" /\ pc = "reset_unlock"
    /\ \E exc \in BOOLEAN :
          IF exc
          THEN Raise /\ UNCHANGED <<mapping, trail>>
          ELSE /\ mapping' = Identity
               /\ trail' = TrailAdd(TrailMap(trail, Identity), "unlock", 0, <<>>)
               /\ Emit(<<Progress(30)>>)
               /\ pc' = "reset_meta"
    /\ UNCHANGED <<sector_size, sector_count, idx, flash, access>>
    /\ UNCHANGED resetFrame

\* eraseFlashMetadata, device_adapter.py lines 297-307: identity mapping, CFI,
\* sector_count = meta_size // sector_size
R_MetaBegin ==
    /\ plan = "reset" /\ pc = "reset_meta"
    /\ LET info == getRomCFI(cfi)
       IN  \E exc \in BOOLEAN :
             IF exc \/ info.sector_size = 0
             THEN Raise /\ UNCHANGED <<mapping, sector_size, sector_count, idx,
                                       trail>>
             ELSE /\ mapping' = Identity
                  /\ trail' = TrailAdd(TrailMap(trail, Identity), "cfi", 0, <<>>)
                  /\ sector_size' = info.sector_size
                  /\ sector_count' = FLASH_METADATA_SIZE \div info.sector_size
                  /\ idx' = 0
                  /\ pc' = "reset_erase"
                  /\ UNCHANGED events
    /\ UNCHANGED <<flash, access>>
    /\ UNCHANGED resetFrame

\* device_adapter.py lines 310-313: one pass of "for i in range(sector_count)"
R_EraseStep ==
    /\ plan = "reset" /\ pc = "reset_erase" /\ idx < sector_count
    /\ LET addr_byte == ROM_OFF_FLASHMETA + idx * sector_size
           addr_word == addr_byte \div 2
       IN  \E exc \in BOOLEAN :
             IF EraseHangs
             THEN /\ pc' = "erase_poll"
                  /\ UNCHANGED <<events, flash, access, idx, trail>>
             ELSE IF exc
             THEN Raise /\ UNCHANGED <<flash, access, idx, trail>>
             ELSE /\ flash' = EraseSectorAt(flash, mapping, addr_word * 2,
                                            sector_size)
                  /\ trail' = TrailArg(trail, "erase", 0, addr_word)
                  /\ access' = Access("erase", addr_byte, addr_word, "word",
                                      mapping)
                  /\ idx' = idx + 1
                  /\ pc' = pc
                  /\ UNCHANGED events
    /\ UNCHANGED <<mapping, sector_size, sector_count>>
    /\ UNCHANGED resetFrame

\* lines 374-386: progress 80, read 512 bytes at the window start, all 0xff?
\* a read that timed out delivers an empty payload, and all() of it is True
R_Verify ==
    /\ plan = "reset" /\ pc = "reset_erase" /\ idx >= sector_count
    /\ LET meta_start_word == ROM_OFF_FLASHMETA \div 2
       IN  \E answer \in {"full", "short", "exc"} :
             LET verify_data == IF answer = "short" THEN <<>>
                                ELSE ReadAt(flash, mapping, meta_start_word * 2,
                                            probe_size)
             IN  /\ IF answer = "exc"
                       \/ \E k \in 1..Len(verify_data) : verify_data[k] # 255
                    THEN /\ Emit(<<Progress(80), Log, Log, Finished(FALSE)>>)
                         /\ UNCHANGED access
                    ELSE /\ Emit(<<Progress(80), Log, Log, Progress(100),
                                     Finished(TRUE)>>)
                         /\ access' = Access("read", ROM_OFF_FLASHMETA,
                                             meta_start_word, "word", mapping)
                 /\ trail' = IF answer = "exc" THEN trail
                             ELSE TrailAdd(trail, "read", meta_start_word,
                                           verify_data)
                 /\ pc' = "done"
    /\ UNCHANGED <<mapping, sector_size, sector_count, idx, flash>>
    /\ UNCHANGED resetFrame

ResetNext == R_Begin \/ R_Unlock \/ R_MetaBegin \/ R_EraseStep \/ R_Verify

----------------------------------------------------------------------------
(* QualityCheckWorker.run *)

qa_read_step == 8        \* 4096, the read size of the fast-flash verification

\* the UI keeps enable_flash_erase and enable_fast_flash from both being set
Configs ==
    {c \in [enable_sram_test : BOOLEAN, enable_flash_erase : BOOLEAN,
            enable_ppb_unlock : BOOLEAN, enable_fast_flash : BOOLEAN,
            enable_full_sram : BOOLEAN, enable_ram_flash : BOOLEAN] :
        ~(c.enable_flash_erase /\ c.enable_fast_flash)}

FastConfigs ==
    {c \in Configs :
        /\ c.enable_fast_flash
        /\ c.enable_sram_test = c.enable_full_sram
        /\ c.enable_full_sram = c.enable_ppb_unlock}

\* which of random.randint's four results are taken: 0 the lowest, 2 the
\* highest, 1 one in between
DrawPatterns == {<<0, 0, 0, 0>>, <<0, 2, 1, 2>>, <<2, 1, 0, 1>>}

Draw(p, lo, hi) ==
    IF p = 0 THEN lo ELSE IF p = 2 THEN hi ELSE Min(hi, ((lo + hi) \div 2) + 1)

QaInputs ==
    [config : Configs \ {c \in Configs : c.enable_fast_flash},
     dexp : {10}, sz : {8}]
    \cup [config : FastConfigs, dexp : {3, 7, 8, 10}, sz : {0, 8, 32}]

InitQa ==
    /\ plan = "qa"
    /\ rom_len = 0
    /\ fault = -1
    /\ flash = <<>>
    /\ \E inp \in QaInputs :
          /\ config = inp.config
          /\ cfi = CfiAnswer(inp.dexp, 5, inp.sz)
    /\ mapping = SegMapping(1)

qaFrame == <<plan, running, config, rom_len, cfi, fault, cancel_at, file_size,
             buffer_size, sector_count, total_size, current_segment, written,
             verified, read_bytes, flash, sink, frameVars, supVars, cfgVars,
             batchVars, self_backup_size, prior, last_ack>>

\* a progress on entry that forgets the half step
QaHalfWhole(k, n) == (k * 100) \div n

\* int((current_test - 0.5) * progress_per_test), int(current_test * progress_per_test)
QaHalf(k, n) == ((2 * k - 1) * 50) \div n
QaFull(k, n) == (k * 100) \div n

\* lines 134-151
Q_Begin ==
    /\ plan = "qa" /\ pc = "start"
    /\ LET n == Cardinality({s \in 1..5 : QaStepEnabled(s)})
       IN  /\ test_count' = n
           /\ IF n = 0
              THEN Emit(<<Log, Log, Finished(FALSE)>>) /\ pc' = "done"
              ELSE UNCHANGED events /\ pc' = "qa_sram"
    /\ current_test' = 0
    /\ UNCHANGED <<test_regions, region, idx, qa_addr, sector_size,
                   device_size, mapping, access, trail>>
    /\ UNCHANGED qaFrame

\* the commands of the steps on the trail: the step that sends them, and
\* the erase commands of the Flash step apart
QaOp(step) ==
    IF step = 1 THEN "sram" ELSE IF step = 2 THEN "full_sram"
    ELSE IF step = 3 THEN "ppb" ELSE IF step = 4 THEN "flash" ELSE "ram_flash"
QaCmd(t, step) == TrailAdd(t, QaOp(step), step, <<>>)
QaErase(t) == TrailAdd(t, "flash_erase", 4, <<>>)
\* eraseSector(addr >> 1, ...) of the fast variant: the trail keeps the byte
\* addresses of the sectors erased so far
QaEraseAt(t, addr) == TrailArg(t, "flash_erase", 4, addr)

\* A step that only talks to the device: skipped when disabled or cancelled,
\* otherwise progress on entry and its commands, then it passes, fails its
\* check, or the driver raises.
QaSimpleStep(step, here, next, m) ==
    /\ plan = "qa" /\ pc = here
    /\ IF QaStepEnabled(step) /\ running
       THEN LET k == current_test + 1
            IN  /\ current_test' = k
                /\ trail' = QaCmd(trail, step)
                /\ \E result \in {"pass", "fail"} :
                      IF result = "pass"
                      THEN /\ Emit(<<Progress(QaHalf(k, test_count)),
                                     Progress(QaFull(k, test_count))>>)
                           /\ mapping' = m
                           /\ pc' = next
                      ELSE /\ Emit(<<Log, Progress(QaHalf(k, test_count)),
                                     Log, Finished(FALSE)>>)
                           /\ UNCHANGED mapping
                           /\ pc' = "done"
       ELSE /\ pc' = next
            /\ UNCHANGED <<current_test, events, mapping, trail>>
    /\ UNCHANGED <<test_count, test_regions, region, idx, qa_addr,
                   sector_size, device_size, access>>
    /\ UNCHANGED qaFrame

\* lines 154-171
Q_Sram ==
    /\ pc = "qa_sram"
    /\ QaSimpleStep(1, "qa_sram", "qa_full", mapping)
\* lines 174-200
Q_FullSram ==
    /\ pc = "qa_full"
    /\ QaSimpleStep(2, "qa_full", "qa_ppb", mapping)
\* lines 203-213
Q_Ppb ==
    /\ pc = "qa_ppb"
    /\ QaSimpleStep(3, "qa_ppb", "qa_flash", Identity)
\* lines 295-326
Q_RamFlash ==
    /\ pc = "qa_ram"
    /\ QaSimpleStep(5, "qa_ram", "qa_end", mapping)

\* lines 233-247: the six regions, or the error that planning them raises
FastRegions(info, draws) ==
    LET lo == 4 * MiB
        hi == info.device_size - 6 * MiB
        rs(i) == (Draw(draws[i], lo, hi) \div info.sector_size) * info.sector_size
    IN  <<<<0, 4 * MiB>>, <<info.device_size - 4 * MiB, info.device_size>>>>
        \o [i \in 1..4 |-> <<rs(i), rs(i) + 2 * MiB>>]

\* lines 216-247 and 276-292: step 4 up to the fast loops, or all of the
\* erase-and-blank-check variant
Q_Flash ==
    /\ plan = "qa" /\ pc = "qa_flash"
    /\ IF QaStepEnabled(4) /\ running
       THEN LET k == current_test + 1
                half == Progress(QaHalf(k, test_count))
                info == getRomCFI(cfi)
            IN  /\ current_test' = k
                /\ \E answer \in {"exc_mode", "exc", "blank", "used"} :
                   \E draws \in DrawPatterns :
                      /\ trail' = IF answer = "used" /\ ~config.enable_fast_flash
                                  THEN QaErase(QaCmd(trail, 4))
                                  ELSE QaCmd(trail, 4)
                      /\ IF answer = "exc_mode"
                         THEN /\ Raise
                              /\ UNCHANGED <<mapping, test_regions, region, idx,
                                             sector_size, device_size, access>>
                         ELSE IF answer = "exc"
                                 \/ (config.enable_fast_flash
                                     /\ (4 * MiB > info.device_size - 6 * MiB
                                         \/ info.sector_size = 0))
                         THEN /\ Emit(<<Log, half, Log, Finished(FALSE)>>)
                              /\ pc' = "done"
                              /\ mapping' = Identity
                              /\ UNCHANGED <<test_regions, region, idx,
                                             sector_size, device_size, access>>
                         ELSE IF config.enable_fast_flash
                         THEN /\ Emit(<<half>>)
                              /\ mapping' = Identity
                              /\ sector_size' = info.sector_size
                              /\ device_size' = info.device_size
                              /\ test_regions' = FastRegions(info, draws)
                              /\ region' = 1
                              /\ idx' = 0
                              /\ pc' = "qa_fast_erase"
                              /\ UNCHANGED access
                         ELSE IF answer = "used" /\ EraseHangs
                         THEN \* eraseChip does not come back
                              /\ Emit(<<half>>)
                              /\ mapping' = Identity
                              /\ pc' = "erase_poll"
                              /\ UNCHANGED <<test_regions, region, idx,
                                             sector_size, device_size, access>>
                         ELSE \* readRom(0, 512); eraseChip() when it is not blank
                              /\ Emit(<<half, Progress(QaFull(k, test_count))>>)
                              /\ mapping' = Identity
                              /\ access' = Access("read", 0, 0, "word", Identity)
                              /\ pc' = "qa_ram"
                              /\ UNCHANGED <<test_regions, region, idx,
                                             sector_size, device_size>>
       ELSE /\ pc' = "qa_ram"
            /\ UNCHANGED <<current_test, events, mapping, test_regions, region,
                           idx, sector_size, device_size, access, trail>>
    /\ UNCHANGED <<test_count, qa_addr>>
    /\ UNCHANGED qaFrame

\* lines 256-260: one pass of the erase loops (a sector, or the next region)
Q_FastEraseStep ==
    /\ plan = "qa" /\ pc = "qa_fast_erase" /\ region <= Len(test_regions)
    /\ LET start == test_regions[region][1]
           end == test_regions[region][2]
           count == (end - start) \div sector_size
           addr == start + idx * sector_size
       IN  IF idx < count
           THEN \E exc \in BOOLEAN :
                  IF EraseHangs
                  THEN /\ pc' = "erase_poll"
                       /\ UNCHANGED <<events, region, idx, access, trail>>
                  ELSE IF exc
                  THEN Raise /\ UNCHANGED <<region, idx, access, trail>>
                  ELSE /\ access' = Access("erase", addr, addr \div 2, "word",
                                           mapping)
                       /\ trail' = QaEraseAt(trail, addr)
                       /\ idx' = idx + 1
                       /\ pc' = pc
                       /\ UNCHANGED <<events, region>>
           ELSE /\ region' = region + 1
                /\ idx' = 0
                /\ pc' = pc
                /\ UNCHANGED <<events, access, trail>>
    /\ qa_addr' = qa_addr
    /\ UNCHANGED <<current_test, test_count, test_regions, sector_size,
                   device_size, mapping>>
    /\ UNCHANGED qaFrame

Q_FastEraseDone ==
    /\ plan = "qa" /\ pc = "qa_fast_erase" /\ region > Len(test_regions)
    /\ region' = 1
    /\ qa_addr' = test_regions[1][1]
    /\ pc' = "qa_fast_verify"
    /\ UNCHANGED <<events, idx, access, current_test, test_count,
                   test_regions, sector_size, device_size, mapping, trail>>
    /\ UNCHANGED qaFrame

\* lines 268-272: one pass of the verification loops
Q_FastVerifyStep ==
    /\ plan = "qa" /\ pc = "qa_fast_verify" /\ region <= Len(test_regions)
    /\ LET end == test_regions[region][2]
       IN  IF qa_addr < end
           THEN \E answer \in {"blank", "dirty"} :
                  IF answer = "dirty"
                  THEN /\ Raise
                       /\ trail' = QaCmd(trail, 4)
                       /\ UNCHANGED <<region, qa_addr, access>>
                  ELSE /\ access' = Access("read", qa_addr, qa_addr \div 2,
                                           "word", mapping)
                       /\ trail' = QaCmd(trail, 4)
                       /\ qa_addr' = qa_addr + qa_read_step
                       /\ pc' = pc
                       /\ UNCHANGED <<events, region>>
           ELSE /\ region' = region + 1
                /\ qa_addr' = IF region < Len(test_regions)
                              THEN test_regions[region + 1][1] ELSE 0
                /\ pc' = pc
                /\ UNCHANGED <<events, access, trail>>
    /\ UNCHANGED <<current_test, test_count, test_regions, idx, sector_size,
                   device_size, mapping>>
    /\ UNCHANGED qaFrame

\* line 292 after the fast variant
Q_FastDone ==
    /\ plan = "qa" /\ pc = "qa_fast_verify" /\ region > Len(test_regions)
    /\ Emit(<<Progress(QaFull(current_test, test_count))>>)
    /\ pc' = "qa_ram"
    /\ UNCHANGED <<region, qa_addr, idx, access, current_test, test_count,
                   test_regions, sector_size, device_size, mapping, trail>>
    /\ UNCHANGED qaFrame

\* lines 328-330
Q_End ==
    /\ plan = "qa" /\ pc = "qa_end"
    /\ Emit(<<Progress(100), Log, Finished(TRUE)>>)
    /\ pc' = "done"
    /\ UNCHANGED <<region, qa_addr, idx, access, current_test, test_count,
                   test_regions, sector_size, device_size, mapping, trail>>
    /\ UNCHANGED qaFrame

QaNext ==
    \/ Q_Begin \/ Q_Sram \/ Q_FullSram \/ Q_Ppb \/ Q_Flash
    \/ Q_FastEraseStep \/ Q_FastEraseDone \/ Q_FastVerifyStep \/ Q_FastDone
    \/ Q_RamFlash \/ Q_End

----------------------------------------------------------------------------
(* Specifications *)

InitFrame == FrameIdle /\ PlanIdle /\ SupIdle /\ CfgIdle /\ BatchIdle
NextFrame ==
    \/ F_writeRom \/ F_readRom \/ F_writeRam \/ F_readRam \/ F_programRom
    \/ F_set_sc_mode \/ F_set_flashmapping
SpecFrame == InitFrame /\ [][NextFrame]_vars

----------------------------------------------------------------------------
(* SpecLive: the plans as threads that keep running, on devices that       *)
(* complete every erase and on devices that never do                       *)

liveFrame == <<plan, running, config, events, rom_len, file_size, cfi,
               sector_size, buffer_size, device_size, sector_count, total_size,
               current_segment, idx, written, verified, read_bytes,
               current_test, test_count, test_regions, region, qa_addr,
               mapping, flash, fault, sink, access, cancel_at, last_ack,
               trail, self_backup_size, prior,
               frameVars, supVars, cfgVars, batchVars>>

\* device_adapter.py lines 211-215 (eraseSector) and 194-198 (eraseChip): a
\* pass of "while True" that read a word other than 0xffff
ErasePoll ==
    /\ pc = "erase_poll"
    /\ pc' = "erase_sleep"
    /\ UNCHANGED liveFrame

\* time.sleep(0.1) / time.sleep(0.5), then the next pass
EraseSleep ==
    /\ pc = "erase_sleep"
    /\ pc' = "erase_poll"
    /\ UNCHANGED liveFrame

LiveProductionInputs ==
    [len : {1, 5}, sz : {1, 4}, fault : {-1, Stuck}, flash : {UsedFlash}]
LiveResetInputs == [sz : {4, 32}, fault : {-1, Stuck}]
LiveQaInputs ==
    [config : {c \in Configs : c.enable_sram_test /\ ~c.enable_full_sram
                                /\ c.enable_ppb_unlock = c.enable_ram_flash},
     dexp : {8}, sz : {32}, fault : {-1, Stuck}]

InitLive ==
    /\ FrameIdle /\ SupIdle /\ CfgIdle /\ BatchIdle
    /\ pc = "start" /\ running = TRUE
    /\ PlanLocalsIdle
    /\ \/ /\ plan = "production" /\ config = DefaultConfig
          /\ \E inp \in LiveProductionInputs :
                /\ rom_len = inp.len /\ cfi = CfiAnswer(10, 5, inp.sz)
                /\ fault = inp.fault /\ flash = inp.flash
          /\ mapping = Identity
       \/ /\ plan = "backup" /\ config = DefaultConfig /\ rom_len = 0
          /\ cfi = CfiAnswer(6, 5, 4) /\ fault \in {-1, Stuck}
          /\ flash = [a \in PhysAddrs |-> ImageByte(a)]
          /\ mapping = Identity
       \/ /\ plan = "reset" /\ config = DefaultConfig /\ rom_len = 0
          /\ \E inp \in LiveResetInputs :
                /\ cfi = CfiAnswer(10, 5, inp.sz) /\ fault = inp.fault
          /\ flash = UsedFlash
          /\ mapping = Identity
       \/ /\ plan = "qa" /\ rom_len = 0 /\ flash = <<>>
          /\ \E inp \in LiveQaInputs :
                /\ config = inp.config /\ cfi = CfiAnswer(inp.dexp, 5, inp.sz)
                /\ fault = inp.fault
          /\ mapping = Identity

\* the steps of the worker thread
RunNext ==
    \/ ProductionNext \/ BackupNext \/ ResetNext \/ QaNext
    \/ ErasePoll \/ EraseSleep
NextLive == stop \/ RunNext \/ BackupAfterProduction
\* a started QThread keeps being scheduled
SpecLive == InitLive /\ [][NextLive]_vars /\ WF_vars(RunNext)

\* the record of the last call is put away
F_return ==
    /\ lastCall.op \in {"eraseSector", "unlockPPB", "getRomCFI"}
    /\ wire' = <<>>
    /\ lastCall' = NoCall
    /\ UNCHANGED <<planVars, supVars, cfgVars, batchVars>>

NextCmd == F_eraseSector \/ F_unlockPPB \/ F_getRomCFI \/ F_return
SpecCmd == InitFrame /\ [][NextCmd]_vars

Init ==
    /\ FrameIdle /\ SupIdle /\ CfgIdle /\ BatchIdle
    /\ pc = "start" /\ running = TRUE
    /\ PlanLocalsIdle
    /\ \/ InitProduction
       \/ InitBackup
       \/ InitReset
       \/ InitQa
Next ==
    \/ stop \/ ProductionNext \/ BackupNext \/ ResetNext \/ QaNext
    \/ BackupAfterProduction
Spec == Init /\ [][Next]_vars

----------------------------------------------------------------------------
(* SpecSup: MainWindow, its device map, its job map and the worker threads. *)
(* The main thread runs one handler at a time; a handler that blocks in     *)
(* QThread.wait is split at the wait, and the workers go on meanwhile.      *)
(* The worker's signals are queued to the main thread (mainQ).              *)

\* the ports the scanner may report; the handlers treat each port by itself
Ports == {"p1"}
MaxJobs == 2

NoJob == 0
NoDevice == [present |-> FALSE, connected |-> FALSE, status |-> "none",
             error_count |-> 0]
\* DeviceInfo.__init__
DeviceInfo == [present |-> TRUE, connected |-> FALSE, status |-> "Disconnected",
               error_count |-> 0]

Kinds == {"quality_check", "production", "reset_nor", "backup_flash"}

Ui(at, port, kind, todo) == [at |-> at, port |-> port, kind |-> kind, todo |-> todo]
UiIdle == Ui("idle", "", "", <<>>)

InitSup ==
    /\ devices = [p \in Ports |-> NoDevice]
    /\ workers = [p \in Ports |-> NoJob]
    /\ jobs = <<>>
    /\ mainQ = <<>>
    /\ ui = UiIdle
    /\ rom_file = ""

\* QThread.isRunning
isRunning(j) == jobs[j].thread = "running"

\* "port in self.workers and self.workers[port].isRunning()"
HasRunningWorker(port) == workers[port] # NoJob /\ isRunning(workers[port])

\* run() has not yet emitted finished_signal: the plan still uses the port
Executing(j) == isRunning(j) /\ ~jobs[j].emitted

\* DeviceInfo.is_connected
is_connected(port) == devices[port].present /\ devices[port].connected

\* a disconnect() that leaves the serial port open
disconnect_keeps_serial(d) == [d EXCEPT !.status = "Disconnected"]

\* DeviceInfo.disconnect
disconnect(d) == [d EXCEPT !.connected = FALSE, !.status = "Disconnected"]

\* ---- the worker threads, as the main window sees them

\* the process lives: it has not aborted, and closeEvent has not returned
\* (main() leaves app.exec() and calls sys.exit)
WorkersAlive == ui.at \notin {"none", "aborted", "closed"}

\* run() emits finished_signal(port, ok); a disconnected signal reaches nobody
W_Finish ==
    /\ WorkersAlive
    /\ \E j \in DOMAIN jobs, ok \in BOOLEAN :
          /\ Executing(j)
          /\ jobs' = [jobs EXCEPT ![j].emitted = TRUE,
                                  ![j].lost = IF jobs[j].wired THEN "none"
                                              ELSE IF ok THEN "ok" ELSE "failed"]
          /\ mainQ' = IF jobs[j].wired
                      THEN Append(mainQ, [type |-> "Finished", port |-> jobs[j].port,
                                          ok |-> ok, job |-> j])
                      ELSE mainQ
    /\ UNCHANGED <<devices, workers, ui, rom_file>>
    /\ UNCHANGED <<frameVars, planVars, cfgVars, batchVars>>

\* run() returns: the thread stops running and QThread.finished is emitted,
\* which the lambda of the start handler turns into cleanup_worker(port)
W_Exit ==
    /\ WorkersAlive
    /\ \E j \in DOMAIN jobs :
          /\ isRunning(j) /\ jobs[j].emitted
          /\ jobs' = [jobs EXCEPT ![j].thread = "finished"]
          /\ mainQ' = IF jobs[j].wired
                      THEN Append(mainQ, [type |-> "Cleanup", port |-> jobs[j].port,
                                          ok |-> FALSE, job |-> j])
                      ELSE mainQ
    /\ UNCHANGED <<devices, workers, ui, rom_file>>
    /\ UNCHANGED <<frameVars, planVars, cfgVars, batchVars>>

\* ---- handlers of the main thread

\* lines 898-908
select_rom_file ==
    /\ ui.at = "idle"
    /\ rom_file' = "rom.gba"
    /\ UNCHANGED <<devices, workers, jobs, mainQ, ui>>
    /\ UNCHANGED <<frameVars, planVars, cfgVars, batchVars>>

\* the serial port of these ports is closed: the workers that are using it
\* lose it
Cut(ports) ==
    [j \in DOMAIN jobs |->
        IF jobs[j].port \in ports /\ Executing(j) /\ is_connected(jobs[j].port)
        THEN [jobs[j] EXCEPT !.cut = TRUE] ELSE jobs[j]]

\* the entry of a port after "del self.devices[port]"; what is left of the
\* record is the state of its serial handle
Removed(d) == [NoDevice EXCEPT !.connected = d.connected]

\* lines 910-927
on_devices_found ==
    /\ ui.at = "idle"
    /\ \E ports \in SUBSET DOMAIN devices :
          LET removed_ports ==
                {p \in DOMAIN devices : devices[p].present /\ p \notin ports}
          IN  /\ devices' = [p \in DOMAIN devices |->
                               IF p \in removed_ports
                               THEN Removed(disconnect(devices[p]))
                               ELSE IF p \notin ports \/ devices[p].present
                               THEN devices[p]
                               ELSE DeviceInfo]
              /\ jobs' = Cut(removed_ports)
              /\ scanned' = ports
    /\ UNCHANGED <<workers, mainQ, ui, rom_file>>
    /\ UNCHANGED <<frameVars, planVars, cfgVars, timers, now, starts>>

\* lines 1006-1014 with DeviceInfo.connect, lines 59-73
connect_device ==
    /\ ui.at = "idle"
    /\ \E port \in DOMAIN devices, opened \in BOOLEAN :
          devices' = IF devices[port].present
                     THEN [devices EXCEPT
                             ![port].connected = opened,
                             ![port].status = IF opened THEN "Connected"
                                              ELSE "ConnectFailed"]
                     ELSE devices
    /\ UNCHANGED <<workers, jobs, mainQ, ui, rom_file>>
    /\ UNCHANGED <<frameVars, planVars, cfgVars, batchVars>>

\* lines 1016-1022
disconnect_device ==
    /\ ui.at = "idle"
    /\ \E port \in Ports :
          /\ devices' = IF devices[port].present
                        THEN [devices EXCEPT ![port] = disconnect(devices[port])]
                        ELSE devices
          /\ jobs' = Cut({port})
    /\ UNCHANGED <<workers, mainQ, ui, rom_file>>
    /\ UNCHANGED <<frameVars, planVars, cfgVars, batchVars>>

\* a stop() whose write of the flag is lost
WorkerStopLost(j) == jobs

\* worker.stop(), lines 124-126: self.running = False
WorkerStop(j) == [jobs EXCEPT ![j].running = FALSE]

\* a worker object as the start handlers create it: running flag set, signals
\* connected, thread started (lost: history, the result run() passed to a
\* finished_signal that no slot received; cut: history, the serial port was
\* closed while run() was using it)
NewJob(port) ==
    [port |-> port, running |-> TRUE, thread |-> "running",
     emitted |-> FALSE, lost |-> "none", wired |-> TRUE, cut |-> FALSE]

\* the guards of a start handler that make it return at once
Refused(port, kind) ==
    \/ kind = "production" /\ rom_file = ""
    \/ ~is_connected(port)

\* "self.workers[port] = worker; worker.start()"
CreateWorker(port, kind) ==
    /\ jobs' = Append(jobs, NewJob(port))
    /\ workers' = [workers EXCEPT ![port] = Len(jobs) + 1]
    /\ ui' = UiIdle
    /\ UNCHANGED <<devices, mainQ, rom_file>>

\* The last Python reference to a QThread that is still running goes away:
\* Qt either lets the thread go on or aborts the process.
Aborts(j) ==
    /\ isRunning(j)
    /\ ui' = Ui("aborted", "", "", <<>>)
    /\ UNCHANGED <<devices, workers, jobs, mainQ, rom_file>>

\* a start handler up to "self.workers[port].wait(1000)"
StartHandler(port, kind) ==
    IF Refused(port, kind)
    THEN UNCHANGED supVars
    ELSE IF HasRunningWorker(port)
    THEN /\ jobs' = WorkerStop(workers[port])
         /\ ui' = Ui("start_wait", port, kind, <<>>)
         /\ UNCHANGED <<devices, workers, mainQ, rom_file>>
    ELSE CreateWorker(port, kind)

\* a start handler called from its button
StartWorker(port, kind) ==
    /\ ui.at = "idle"
    /\ Len(jobs) < MaxJobs
    /\ StartHandler(port, kind)
    /\ UNCHANGED <<frameVars, planVars, cfgVars, batchVars>>

\* a start handler from the return of wait(1000): the old worker has stopped,
\* or the second has passed
ResumeStart(kind) ==
    /\ ui.at = "start_wait" /\ ui.kind = kind
    /\ \/ CreateWorker(ui.port, kind)
       \/ Aborts(workers[ui.port])
    /\ UNCHANGED <<frameVars, planVars, cfgVars, batchVars>>

\* lines 1035-1055
start_quality_check ==
    /\ ui.at = "idle"
    /\ \E port \in Ports : StartWorker(port, "quality_check")
start_quality_check_resume ==
    /\ ui.at = "start_wait"
    /\ ResumeStart("quality_check")
\* lines 1066-1090
start_production ==
    /\ ui.at = "idle"
    /\ \E port \in Ports : StartWorker(port, "production")
start_production_resume ==
    /\ ui.at = "start_wait"
    /\ ResumeStart("production")
\* lines 1105-1135
start_reset_nor ==
    /\ ui.at = "idle"
    /\ \E port \in Ports : StartWorker(port, "reset_nor")
start_reset_nor_resume ==
    /\ ui.at = "start_wait"
    /\ ResumeStart("reset_nor")
\* lines 1166-1194
start_backup_flash ==
    /\ ui.at = "idle"
    /\ \E port \in Ports : StartWorker(port, "backup_flash")
start_backup_flash_resume ==
    /\ ui.at = "start_wait"
    /\ ResumeStart("backup_flash")

\* the two statuses exchanged
FinishedStatusInverted(success) == IF success THEN "Failed" ELSE "Success"

\* lines 1257-1260
FinishedStatus(success) == IF success THEN "Success" ELSE "Failed"

\* lines 1253-1262, run for the finished_signal at the head of the queue
on_worker_finished ==
    /\ ui.at = "idle"
    /\ mainQ # <<>> /\ Head(mainQ).type = "Finished"
    /\ LET port == Head(mainQ).port
           success == Head(mainQ).ok
       IN  devices' =
             IF devices[port].present
             THEN [devices EXCEPT
                     ![port].status = FinishedStatus(success),
                     ![port].error_count =
                         IF success THEN @ ELSE @ + 1]
             ELSE devices
    /\ mainQ' = Tail(mainQ)
    /\ UNCHANGED <<workers, jobs, ui, rom_file>>
    /\ UNCHANGED <<frameVars, planVars, cfgVars, batchVars>>

\* line 1280: del self.workers[port]
WorkersWithout(port) == [workers EXCEPT ![port] = NoJob]

\* lines 1272-1280: disconnect the signals of the worker the map holds and
\* drop it
DropWorker(port) ==
    /\ jobs' = [jobs EXCEPT ![workers[port]].wired = FALSE]
    /\ workers' = WorkersWithout(port)

\* lines 1264-1271, run for the QThread.finished at the head of the queue
cleanup_worker ==
    /\ ui.at = "idle"
    /\ mainQ # <<>> /\ Head(mainQ).type = "Cleanup"
    /\ mainQ' = Tail(mainQ)
    /\ LET port == Head(mainQ).port
       IN  IF workers[port] = NoJob
           THEN UNCHANGED <<workers, jobs, ui>>
           ELSE IF isRunning(workers[port])
           THEN /\ ui' = Ui("cleanup_wait", port, "", <<>>)
                /\ UNCHANGED <<workers, jobs>>
           ELSE DropWorker(port) /\ UNCHANGED ui
    /\ UNCHANGED <<devices, rom_file>>
    /\ UNCHANGED <<frameVars, planVars, cfgVars, batchVars>>

\* cleanup_worker from the return of wait(2000)
cleanup_worker_resume ==
    /\ ui.at = "cleanup_wait"
    /\ \/ /\ DropWorker(ui.port)
          /\ ui' = UiIdle
          /\ UNCHANGED <<devices, mainQ, rom_file>>
       \/ Aborts(workers[ui.port])
    /\ UNCHANGED <<frameVars, planVars, cfgVars, batchVars>>

\* the orders in which "for port, worker in list(self.workers.items())" may
\* visit the entries of the job map
WorkerOrders ==
    LET held == {p \in Ports : workers[p] # NoJob}
    IN  {s \in [1 .. Cardinality(held) -> held] :
            \A a, b \in DOMAIN s : a # b => s[a] # s[b]}

\* lines 1287-1299: closeEvent up to the loop over the workers
closeEvent ==
    /\ ui.at = "idle"
    /\ \E todo \in WorkerOrders : ui' = Ui("closing", "", "", todo)
    /\ UNCHANGED <<devices, workers, jobs, mainQ, rom_file>>
    /\ UNCHANGED <<frameVars, planVars, cfgVars, batchVars>>

\* lines 1300-1303: the next worker; stop() and wait(5000) when it runs
closeEvent_stop ==
    /\ ui.at = "closing" /\ ui.todo # <<>>
    /\ LET port == Head(ui.todo)
       IN  IF isRunning(workers[port])
           THEN /\ jobs' = WorkerStop(workers[port])
                /\ ui' = Ui("close_wait", port, "", Tail(ui.todo))
           ELSE /\ ui' = Ui("closing", "", "", Tail(ui.todo))
                /\ UNCHANGED jobs
    /\ UNCHANGED <<devices, workers, mainQ, rom_file>>
    /\ UNCHANGED <<frameVars, planVars, cfgVars, batchVars>>

\* lines 1304-1306: wait(5000) has returned; terminate() when it still runs
closeEvent_terminate ==
    /\ ui.at = "close_wait"
    /\ jobs' = IF isRunning(workers[ui.port])
               THEN [jobs EXCEPT ![workers[ui.port]].thread = "terminated"]
               ELSE jobs
    /\ ui' = Ui("closing", "", "", ui.todo)
    /\ UNCHANGED <<devices, workers, mainQ, rom_file>>
    /\ UNCHANGED <<frameVars, planVars, cfgVars, batchVars>>

\* lines 1308-1317: clear the job map, disconnect the connected devices
closeEvent_return ==
    /\ ui.at = "closing" /\ ui.todo = <<>>
    /\ workers' = [p \in Ports |-> NoJob]
    /\ devices' = [p \in Ports |->
                     IF is_connected(p) THEN disconnect(devices[p])
                     ELSE devices[p]]
    /\ jobs' = Cut(Ports)
    /\ ui' = Ui("closed", "", "", <<>>)
    /\ UNCHANGED <<mainQ, rom_file>>
    /\ UNCHANGED <<frameVars, planVars, cfgVars, batchVars>>

InitSupervisor ==
    FrameIdle /\ PlanIdle /\ InitSup /\ CfgIdle /\ BatchIdle

NextSup ==
    \/ W_Finish \/ W_Exit
    \/ select_rom_file \/ on_devices_found \/ connect_device \/ disconnect_device
    \/ start_quality_check \/ start_quality_check_resume
    \/ start_production \/ start_production_resume
    \/ start_reset_nor \/ start_reset_nor_resume
    \/ start_backup_flash \/ start_backup_flash_resume
    \/ on_worker_finished \/ cleanup_worker \/ cleanup_worker_resume
    \/ closeEvent \/ closeEvent_stop \/ closeEvent_terminate \/ closeEvent_return

SpecSup == InitSupervisor /\ [][NextSup]_vars

----------------------------------------------------------------------------
(* SpecConfig: the six quality-check options of the main window.  A click   *)
(* toggles a check box; stateChanged runs the connected slot with the new   *)
(* state before the click returns.                                          *)

\* Qt.CheckState.Checked.value, Qt.CheckState.Unchecked.value
Checked == 2
Unchecked == 0
\* the state a box reports after setChecked(b)
CheckState(b) == IF b THEN Checked ELSE Unchecked

\* the lines the log may hold before the window is left alone
MaxLog == 4

\* log_global(f"...: {'启用' if flag else '禁用'}")
LogLine(option, enabled) == [option |-> option, enabled |-> enabled]
log_global(st, option, enabled) ==
    [st EXCEPT !.log = Append(@, LogLine(option, enabled))]

RECURSIVE on_flash_erase_changed(_, _)
RECURSIVE on_flash_fast_changed(_, _)

\* QCheckBox.setChecked(v): stateChanged is emitted, and the slot runs, only
\* when the state of the box changes
check_flash_fast_setChecked(st, v) ==
    IF st.checks.enable_fast_flash = v THEN st
    ELSE on_flash_fast_changed([st EXCEPT !.checks.enable_fast_flash = v],
                               CheckState(v))

check_flash_erase_setChecked(st, v) ==
    IF st.checks.enable_flash_erase = v THEN st
    ELSE on_flash_erase_changed([st EXCEPT !.checks.enable_flash_erase = v],
                                CheckState(v))

on_sram_basic_changed(st, state) ==
    log_global([st EXCEPT !.config.enable_sram_test = (state = Checked)],
               "sram_basic", state = Checked)

on_sram_full_changed(st, state) ==
    log_global([st EXCEPT !.config.enable_full_sram = (state = Checked)],
               "sram_full", state = Checked)

\* the slot without its "if self.quality_config.enable_flash_erase" block
on_flash_erase_changed_plain(st, state) ==
    log_global([st EXCEPT !.config.enable_flash_erase = (state = Checked)],
               "flash_erase", state = Checked)

on_flash_erase_changed(st, state) ==
    LET s1 == [st EXCEPT !.config.enable_flash_erase = (state = Checked)]
        s2 == IF s1.config.enable_flash_erase
              THEN check_flash_fast_setChecked(
                       [s1 EXCEPT !.config.enable_fast_flash = FALSE], FALSE)
              ELSE s1
    IN  log_global(s2, "flash_erase", s2.config.enable_flash_erase)

on_flash_fast_changed(st, state) ==
    LET s1 == [st EXCEPT !.config.enable_fast_flash = (state = Checked)]
        s2 == IF s1.config.enable_fast_flash
              THEN check_flash_erase_setChecked(
                       [s1 EXCEPT !.config.enable_flash_erase = FALSE], FALSE)
              ELSE s1
    IN  log_global(s2, "flash_fast", s2.config.enable_fast_flash)

on_ppb_changed(st, state) ==
    log_global([st EXCEPT !.config.enable_ppb_unlock = (state = Checked)],
               "ppb", state = Checked)

on_ram_flash_changed(st, state) ==
    log_global([st EXCEPT !.config.enable_ram_flash = (state = Checked)],
               "ram_flash", state = Checked)

cfgFrame == <<plan, pc, running, events, rom_len, file_size, cfi, sector_size,
              buffer_size, device_size, sector_count, total_size,
              current_segment, idx, written, verified, read_bytes,
              current_test, test_count, test_regions, region, qa_addr,
              mapping, flash, fault, sink, access, cancel_at, last_ack,
              trail, self_backup_size, prior, frameVars, supVars, batchVars>>

\* the user clicks a box: the box toggles and its slot runs
Click(box, slot(_, _)) ==
    /\ LET v  == ~checks[box]
           st == slot([config |-> config,
                       checks |-> [checks EXCEPT ![box] = v],
                       log |-> global_log], CheckState(v))
       IN  /\ config' = st.config
           /\ checks' = st.checks
           /\ global_log' = st.log
    /\ UNCHANGED cfgFrame

click_sram_basic ==
    /\ Len(global_log) < MaxLog
    /\ Click("enable_sram_test", on_sram_basic_changed)

click_sram_full ==
    /\ Len(global_log) < MaxLog
    /\ Click("enable_full_sram", on_sram_full_changed)

click_flash_erase ==
    /\ Len(global_log) < MaxLog
    /\ Click("enable_flash_erase", on_flash_erase_changed)

click_flash_fast ==
    /\ Len(global_log) < MaxLog
    /\ Click("enable_fast_flash", on_flash_fast_changed)

click_ppb ==
    /\ Len(global_log) < MaxLog
    /\ Click("enable_ppb_unlock", on_ppb_changed)

click_ram_flash ==
    /\ Len(global_log) < MaxLog
    /\ Click("enable_ram_flash", on_ram_flash_changed)

InitConfig == FrameIdle /\ PlanIdle /\ SupIdle /\ CfgIdle /\ BatchIdle
NextConfig ==
    \/ click_sram_basic \/ click_sram_full \/ click_flash_erase
    \/ click_flash_fast \/ click_ppb \/ click_ram_flash
SpecConfig == InitConfig /\ [][NextConfig]_vars

----------------------------------------------------------------------------
(* Properties *)

\* the events of the run hold a Finished event with this ok
HasFinished(b) ==
    \E k \in 1 .. Len(events) : events[k].type = "Finished" /\ events[k].ok = b

\* the jobs of a port whose run() is executing its plan
ExecutingOn(port) ==
    {j \in DOMAIN jobs : jobs[j].port = port /\ Executing(j)}

\* C1: at every moment at most one worker is executing a plan against a
\* port, for every sequence of start calls on the port, also a call made
\* while the previous job has not stopped within the wait of one second.
C1_OneWorkerPerPort ==
    \A port \in Ports : Cardinality(ExecutingOn(port)) <= 1

\* C2: a quality check that is cancelled while an enabled step is still to
\* run ends with Finished ok=false; it never reports Progress 100 and
\* Finished ok=true for a run whose steps were skipped by the cancel.
C2_QaCancelGivesFailure ==
    (plan = "qa" /\ pc = "done" /\ cancel_at.left) => HasFinished(FALSE)

\* C3: a production run that is cancelled in its erase, program or verify
\* phase, with work of that phase left, ends with Finished ok=false.
C3_ProductionCancelGivesFailure ==
    (/\ plan = "production" /\ pc = "done"
     /\ cancel_at.pc \in {"erase", "program", "program_pass", "verify"}
     /\ cancel_at.left)
    => HasFinished(FALSE)

\* C4: every Progress event of every plan carries a percentage between 0 and
\* 100, for every image length and every CFI geometry.
C4_ProgressInRange ==
    \A k \in 1 .. Len(events) :
        events[k].type = "Progress" => events[k].pct \in 0 .. 100

\* C5: whenever a plan issues an erase, program or read for the logical byte
\* offset L, the mapping the device holds has mapping[0] = (L div segment) * 8
\* and the address given to the driver is derived from L mod segment.
C5_SegmentWindow ==
    access.op # "none" =>
        /\ access.map0 = (access.L \div segment_size) * 8
        /\ access.addr = IF access.unit = "word"
                         THEN (access.L % segment_size) \div 2
                         ELSE access.L % segment_size

\* C6: production reports Finished ok=true only when every byte of the
\* even-padded image has been read back and compared equal.
C6_SuccessImpliesVerified ==
    (plan = "production" /\ HasFinished(TRUE)) => verified >= file_size

\* the step is on_worker_finished for an event of a device in the table
ProcessesFinished ==
    /\ ui.at = "idle" /\ mainQ # <<>> /\ mainQ' = Tail(mainQ)
    /\ Head(mainQ).type = "Finished"
    /\ devices[Head(mainQ).port].present

\* the step is the return of cleanup_worker(port)
CleanupReturns(port) ==
    \/ /\ ui.at = "idle" /\ mainQ # <<>> /\ mainQ' = Tail(mainQ)
       /\ Head(mainQ).type = "Cleanup" /\ Head(mainQ).port = port
       /\ ui'.at = "idle"
    \/ ui.at = "cleanup_wait" /\ ui.port = port /\ ui'.at = "idle"

\* C7: when the supervisor has processed the completion of a job of port p,
\* the device's status is Success for ok=true and Failed for ok=false, and
\* the job map has no entry for p.
C7_CompletionHandled ==
    [][/\ ProcessesFinished =>
            devices'[Head(mainQ).port].status =
                (IF Head(mainQ).ok THEN "Success" ELSE "Failed")
       /\ \A port \in Ports : CleanupReturns(port) => workers'[port] = NoJob
      ]_vars

C7_Witness ==
    \E j \in DOMAIN jobs :
        /\ jobs[j].thread = "finished" /\ ~jobs[j].wired
        /\ workers[jobs[j].port] = NoJob
        /\ devices[jobs[j].port].status = "Success"
        /\ mainQ = <<>> /\ ui.at = "idle"

\* C8: a start call for a port whose job is running sets the old job's
\* cancel flag, waits, and only then creates and starts the new job; after
\* the call the job map entry of the port is the new job.
C8_ReplacementOrder ==
    [][Len(jobs') = Len(jobs) + 1 =>
        LET new == Len(jobs')
            port == jobs'[new].port
            old == workers[port]
        IN  /\ ui.at = "start_wait" => old # NoJob /\ ~jobs[old].running
            /\ ui.at # "start_wait" => ~HasRunningWorker(port)
            /\ workers'[port] = new
            /\ jobs'[new].thread = "running"
            /\ ui'.at = "idle"
      ]_vars

C8_Witness ==
    /\ Len(jobs) >= 2 /\ ui.at = "idle"
    /\ jobs[1].port = jobs[2].port
    /\ ~jobs[1].running /\ jobs[2].running
    /\ workers[jobs[2].port] = 2

\* C9: closeEvent disconnects the devices only after no worker is running.
C9_ShutdownStopsEveryWorker ==
    [][(ui.at = "closing" /\ ui'.at = "closed") =>
          \A j \in DOMAIN jobs : ~isRunning(j)]_vars

\* C10: in every frame written by writeRom, readRom, writeRam, readRam and
\* programRom the first two bytes, little-endian, are the length of the whole
\* frame, and the last two bytes are 0x00 0x00.
C10_FrameLengthField ==
    \A k \in 1 .. Len(wire) :
        LET f == wire[k]
        IN  /\ Len(f) >= 4
            /\ f[1] + 256 * f[2] = Len(f)
            /\ f[Len(f) - 1] = 0 /\ f[Len(f)] = 0

C10_Witness ==
    /\ lastCall.op = "programRom"
    /\ Len(wire) = 1 /\ Len(wire[1]) > 256


----------------------------------------------------------------------------
(* Driver calls: responses and command sequences (SpecFrame) *)

\* C11: a readRom(a, n) that returns normally delivers exactly n payload
\* bytes; a response shorter than n + 2 bytes is never delivered as a
\* shorter payload.
C11_ReadRomDeliversN ==
    (lastCall.op = "readRom" /\ ~lastCall.raised)
        => Len(lastCall.ret) = lastCall.n

\* a command frame is writeRom(addr_word, value) with an integer value
IsWriteRomOf(f, addr_word, value) ==
    /\ Len(f) = 11
    /\ f[1] + 256 * f[2] = 11
    /\ f[3] = 245
    /\ f[4] + 256 * f[5] + 65536 * f[6] + 16777216 * f[7] = addr_word
    /\ f[8] + 256 * f[9] = value

\* C12: set_sc_mode issues exactly four writeRom commands to word address
\* 0x01FFFFFE >> 1 = 0xFFFFFF, with the values 0xA55A, 0xA55A, config, config
\* in this order, config = (ctrl << 4) | (sdram | sd_enable << 1 |
\* write_enable << 2 | sram_bank << 3) (a sum: the fields do not overlap).
C12_ScModeSequence ==
    lastCall.op = "set_sc_mode" =>
        LET a == lastCall.args
            cfg == 16 * a[5] + a[1] + 2 * a[2] + 4 * a[3] + 8 * a[4]
        IN  /\ Len(wire) = 4
            /\ IsWriteRomOf(wire[1], 16777215, 42330)
            /\ IsWriteRomOf(wire[2], 16777215, 42330)
            /\ IsWriteRomOf(wire[3], 16777215, cfg)
            /\ IsWriteRomOf(wire[4], 16777215, cfg)

\* write mode with ctrl 0x8: config 0x85
C12_Witness ==
    /\ lastCall.op = "set_sc_mode"
    /\ lastCall.args = <<1, 0, 1, 0, 8>>
    /\ Len(wire) = 4
    /\ IsWriteRomOf(wire[4], 16777215, 133)

\* C13: set_flashmapping(m) with len(m) = 8 issues exactly 32 writeRom
\* commands to the magic word address, 0xA558, 0xA558, m[i], m[i] for
\* i = 0..7 in this order; any other length is rejected before a command is
\* written.
C13_FlashMappingSequence ==
    lastCall.op = "set_flashmapping" =>
        LET m == lastCall.args
        IN  IF Len(m) = 8
            THEN /\ ~lastCall.raised
                 /\ Len(wire) = 32
                 /\ \A i \in 0 .. 7 :
                       /\ IsWriteRomOf(wire[4 * i + 1], 16777215, 42328)
                       /\ IsWriteRomOf(wire[4 * i + 2], 16777215, 42328)
                       /\ IsWriteRomOf(wire[4 * i + 3], 16777215, m[i + 1])
                       /\ IsWriteRomOf(wire[4 * i + 4], 16777215, m[i + 1])
            ELSE lastCall.raised /\ wire = <<>>

\* the mapping of segment 1 has been written
C13_Witness ==
    /\ lastCall.op = "set_flashmapping"
    /\ lastCall.args = [i \in 1..8 |-> 8 + i - 1]
    /\ Len(wire) = 32
    /\ IsWriteRomOf(wire[32], 16777215, 15)

\* a mapping of the wrong length has been rejected
C13_WitnessRejected ==
    /\ lastCall.op = "set_flashmapping"
    /\ Len(lastCall.args) = 7
    /\ lastCall.raised


----------------------------------------------------------------------------
(* Production: the acknowledgement of programRom (Spec) *)

\* a step of the program loop that called programRom
ProgramCallStep ==
    /\ plan = "production" /\ pc = "program_pass"
    /\ (written' # written \/ pc' = "done")

\* C15: programRom reports success exactly when the acknowledgement is the
\* one byte 0xAA; the first program command acknowledged otherwise (the empty
\* acknowledgement included) ends the production plan with Finished{ok=false},
\* and no program command and no verify read follows it.
C15_ProgramAck ==
    /\ [][ProgramCallStep =>
            /\ (written' = written + write_chunk_size) <=> (last_ack' = <<170>>)
            /\ (last_ack' # <<170>>) =>
                  /\ pc' = "done"
                  /\ events' = events \o <<Log, Finished(FALSE)>>
                  /\ flash' = flash /\ access' = access]_vars
    /\ []((plan = "production" /\ last_ack \in AckBytes /\ last_ack # <<170>>)
            => /\ pc = "done"
               /\ events[Len(events)] = Finished(FALSE)
               /\ ~HasFinished(TRUE)
               /\ verified = 0
               /\ access.op # "read")

\* a chunk was programmed, then a program command was acknowledged with 0x00
C15_Witness ==
    /\ plan = "production" /\ pc = "done"
    /\ last_ack = <<0>>
    /\ written > 0
    /\ HasFinished(FALSE)


----------------------------------------------------------------------------
(* Backup (Spec) *)

IsProgress(e) == e.type = "Progress"

\* the values of the Progress events of the run, in order
ProgressValues ==
    LET ps == SelectSeq(events, IsProgress)
    IN  [k \in 1 .. Len(ps) |-> ps[k].pct]

\* the first n bytes of the flash as the segment windows show them
BackupStream(n) == [k \in 1 .. n |-> flash[k - 1]]

IsPrefix(s, t) == Len(s) <= Len(t) /\ s = SubSeq(t, 1, Len(s))

\* C14: on a device that stores what is programmed, a production that ends
\* with Finished{ok=true} for image I followed by a backup of the same length
\* writes I, padded with 0x00 to even length, to the backup sink.
C14_RoundTrip ==
    (/\ plan = "backup" /\ prior = "production" /\ fault = -1
     /\ pc = "done" /\ HasFinished(TRUE))
        => sink = [k \in 1 .. file_size |-> RomData(k - 1)]

\* C16: a backup that ends with Finished{ok=true} has read T =
\* min(requested, device_size) bytes in ceil(T / 4096) chunks and has written
\* exactly T bytes to the sink, in stream order from offset 0, also when a
\* read returned fewer bytes than requested.
C16_BackupLength ==
    (plan = "backup" /\ pc = "done" /\ HasFinished(TRUE))
        => /\ total_size = Min(self_backup_size, device_size)
           /\ read_bytes = total_size
           /\ Len(sink) = total_size
           /\ sink = BackupStream(total_size)

\* the read positions after which the loop emits progress
BackupPoints(T) == [j \in 1 .. ((T + MiB - 1) \div MiB) |-> Min(j * MiB, T)]

\* the Progress values of a complete backup of T bytes
BackupProgressList(T) ==
    <<0>> \o [j \in 1 .. Len(BackupPoints(T)) |->
                (BackupPoints(T)[j] * 100) \div T] \o <<100>>

C18_BackupCancel ==
    /\ [][(plan = "backup" /\ ~running)
            => (read_bytes' = read_bytes /\ sink' = sink /\ access' = access)]_vars
    /\ []((plan = "backup" /\ cancel_at.pc = "backup")
            => /\ sink = BackupStream(Len(sink))
               /\ pc = "done" => (HasFinished(FALSE) /\ ~HasFinished(TRUE)))


\* an image of odd length, longer than one segment, has made the round trip
C14_Witness ==
    /\ plan = "backup" /\ prior = "production" /\ fault = -1
    /\ pc = "done" /\ HasFinished(TRUE)
    /\ rom_len = segment_size + 1
    /\ Len(sink) = segment_size + 2
    /\ sink[segment_size + 2] = 0


----------------------------------------------------------------------------
(* Reset-NOR (Spec) *)

\* C19: the reset-NOR plan polls its cancel flag between sectors: once the
\* flag is set no further sector erase is started, and the plan ends with
\* Finished{ok=false}.
C19_ResetCancel ==
    /\ [][(plan = "reset" /\ ~running)
            => (idx' = idx /\ flash' = flash)]_vars
    /\ []((plan = "reset" /\ cancel_at.pc # "none" /\ pc = "done")
            => (HasFinished(FALSE) /\ ~HasFinished(TRUE)))


----------------------------------------------------------------------------
(* Quality-check options (SpecConfig) *)

\* the four flags that are neither enable_flash_erase nor enable_fast_flash
OtherFlags(c) ==
    <<c.enable_sram_test, c.enable_full_sram, c.enable_ppb_unlock,
      c.enable_ram_flash>>

\* C20: after any sequence of calls of the six option setters, with checked
\* or unchecked, enable_flash_erase and enable_fast_flash are never both set;
\* enabling one of them clears the other and leaves the four other flags
\* unchanged.
C20_FlashOptionsExclusive ==
    /\ [](~(config.enable_flash_erase /\ config.enable_fast_flash))
    /\ [][/\ (config'.enable_flash_erase /\ ~config.enable_flash_erase)
                => (~config'.enable_fast_flash
                    /\ OtherFlags(config') = OtherFlags(config))
          /\ (config'.enable_fast_flash /\ ~config.enable_fast_flash)
                => (~config'.enable_flash_erase
                    /\ OtherFlags(config') = OtherFlags(config))]_vars

\* the fast check was enabled, then the erase check was enabled and the slot
\* of the fast box ran from inside setChecked(False)
C20_Witness ==
    /\ config.enable_flash_erase /\ ~config.enable_fast_flash
    /\ ~checks.enable_fast_flash
    /\ \E k \in 1 .. Len(global_log) - 2 :
          /\ global_log[k] = LogLine("flash_fast", TRUE)
          /\ global_log[k + 1] = LogLine("flash_fast", FALSE)
          /\ global_log[k + 2] = LogLine("flash_erase", TRUE)


----------------------------------------------------------------------------
(* Device records (SpecSup) *)

\* the step processes a finished_signal of port p with ok = false
CountsFailure(p) ==
    /\ ui.at = "idle" /\ mainQ # <<>> /\ mainQ' = Tail(mainQ)
    /\ Head(mainQ).type = "Finished" /\ Head(mainQ).port = p
    /\ ~Head(mainQ).ok

\* C21: a device's error_count never decreases; it grows by exactly one for
\* each job of the device that ends in failure, and a job that ends with
\* ok=true leaves it unchanged.  (A job's end reaches the supervisor as the
\* queued finished_signal; the count moves when that signal is processed, so
\* no failing end of a present device's job may go unreceived.)
C21_ErrorCount ==
    [][/\ \A p \in Ports :
            (devices[p].present /\ devices'[p].present) =>
                devices'[p].error_count =
                    devices[p].error_count + (IF CountsFailure(p) THEN 1 ELSE 0)
       /\ \A j \in DOMAIN jobs :
            (~jobs[j].emitted /\ jobs'[j].emitted
             /\ devices[jobs[j].port].present) =>
                jobs'[j].lost # "failed"
      ]_vars


\* C22: when the serial port of a device is closed while its job is running,
\* the job ends with Finished{ok=false}, and once that completion has been
\* processed the device's status is Disconnected.
C22_DisconnectDuringJob ==
    [][(ProcessesFinished /\ jobs[Head(mainQ).job].cut) =>
          /\ ~Head(mainQ).ok
          /\ devices'[Head(mainQ).port].status = "Disconnected"]_vars


\* C24: after on_devices_found(P) the key set of the device map is P; a
\* device that was in the map and is in P is the same record (status, serial
\* handle, error_count unchanged); a device that is not in P has had its
\* serial handle closed (disconnect) before it was removed.
C24_DevicesFound ==
    [][on_devices_found =>
          /\ {p \in Ports : devices'[p].present} = scanned'
          /\ \A p \in Ports :
                /\ (devices[p].present /\ p \in scanned') =>
                      devices'[p] = devices[p]
                /\ (devices[p].present /\ p \notin scanned') =>
                      ~devices'[p].connected
      ]_vars

\* a connected device with a job on its serial port has been removed by a scan
C24_Witness ==
    \E p \in Ports :
        /\ ~devices[p].present /\ p \notin scanned
        /\ \E j \in DOMAIN jobs :
              jobs[j].port = p /\ jobs[j].cut /\ Executing(j)


(***************************************************************************)
(* The batch buttons (SpecBatch): two ports, a clock in ticks of 250 ms,   *)
(* the pending QTimer.singleShot calls and the log of worker.start().      *)
(***************************************************************************)

BatchPorts == {"p1", "p2"}
MaxBatches == 1
MaxTime == 6

\* random.uniform(0.5, 1.0) seconds in ticks: 500, 750, 1000 ms
DelayTicks == {2, 3, 4}
\* wait(1000) in ticks
WaitTicks == 4
\* the start time of a worker whose start handler is still in wait(1000)
Pending == -1

\* the orders in which "for port, device in self.devices.items()" may visit
\* a set of ports
Orders(S) ==
    {s \in [1 .. Cardinality(S) -> S] :
        \A a, b \in DOMAIN s : a # b => s[a] # s[b]}

ConnectedPorts == {p \in DOMAIN devices : is_connected(p)}

\* the number of batch operations that have scheduled or started something
BatchCount ==
    LET used == {t.batch : t \in timers} \cup
                {starts[i].batch : i \in DOMAIN starts}
    IN  IF used = {} THEN 0 ELSE CHOOSE b \in used : \A c \in used : c <= b

RECURSIVE DelayBefore(_, _)
\* the value of "delay" when the i-th timer is set
DelayBefore(delays, i) ==
    IF i = 1 THEN 0 ELSE DelayBefore(delays, i - 1) + delays[i - 1]

\* lines 1059-1064 and 1098-1103: one single-shot timer per connected device
SingleShots(kind) ==
    \E order \in Orders(ConnectedPorts) :
      \E delays \in [DOMAIN order -> DelayTicks] :
        timers' = timers \cup
            {[port |-> order[i], kind |-> kind,
              due |-> now + DelayBefore(delays, i),
              batch |-> BatchCount + 1] : i \in DOMAIN order}

\* lines 1057-1064
start_quality_check_all ==
    /\ ui.at = "idle" /\ BatchCount < MaxBatches
    /\ SingleShots("quality_check")
    /\ UNCHANGED <<supVars, frameVars, planVars, cfgVars, scanned, now, starts>>

\* lines 1092-1103
start_production_all ==
    /\ ui.at = "idle" /\ BatchCount < MaxBatches
    /\ IF rom_file = "" THEN UNCHANGED timers ELSE SingleShots("production")
    /\ UNCHANGED <<supVars, frameVars, planVars, cfgVars, scanned, now, starts>>

Started(port, batch, at) == [port |-> port, batch |-> batch, at |-> at]

\* a timer fires: the event loop is idle and the time has come; the lambda
\* calls the start handler of the port
timer_fire ==
    /\ ui.at = "idle"
    /\ \E t \in timers :
          /\ t.due <= now
          /\ timers' = timers \ {t}
          /\ StartHandler(t.port, t.kind)
          /\ starts' = IF Refused(t.port, t.kind) THEN starts
                       ELSE IF HasRunningWorker(t.port)
                       THEN Append(starts, Started(t.port, t.batch, Pending))
                       ELSE Append(starts, Started(t.port, t.batch, now))
    /\ UNCHANGED <<frameVars, planVars, cfgVars, scanned, now>>

\* wait(1000) returns: at once or later when the old thread has ended, after
\* the full second when it still runs
WaitReturns ==
    \E d \in 0 .. WaitTicks :
        /\ isRunning(workers[ui.port]) => d = WaitTicks
        /\ now' = now + d

\* the start handler of a timer from the return of wait(1000), lines
\* 1043-1055 and 1078-1090
timer_resume ==
    /\ ui.at = "start_wait"
    /\ WaitReturns
    /\ \/ /\ CreateWorker(ui.port, ui.kind)
          /\ starts' = IF starts # <<>> /\ starts[Len(starts)].at = Pending
                       THEN [starts EXCEPT ![Len(starts)].at = now']
                       ELSE starts
       \/ /\ Aborts(workers[ui.port])
          /\ UNCHANGED starts
    /\ UNCHANGED <<frameVars, planVars, cfgVars, scanned, timers>>

RECURSIVE BatchLoop(_, _, _, _, _, _, _)
\* the loop of lines 1148-1164 and 1209-1229 over the ports still to visit,
\* up to the next wait(1000): what it leaves in jobs, workers, starts and ui
BatchLoop(js, ws, st, todo, kind, batch, at) ==
    IF todo = <<>>
    THEN [jobs |-> js, workers |-> ws, starts |-> st, ui |-> UiIdle]
    ELSE LET port == Head(todo)
         IN  IF ws[port] # NoJob /\ js[ws[port]].thread = "running"
             THEN [jobs |-> [js EXCEPT ![ws[port]].running = FALSE],
                   workers |-> ws,
                   starts |-> Append(st, Started(port, batch, Pending)),
                   ui |-> Ui("batch_wait", port, kind, Tail(todo))]
             ELSE BatchLoop(Append(js, NewJob(port)),
                            [ws EXCEPT ![port] = Len(js) + 1],
                            Append(st, Started(port, batch, at)),
                            Tail(todo), kind, batch, at)

RunBatch(r) ==
    /\ jobs' = r.jobs
    /\ workers' = r.workers
    /\ starts' = r.starts
    /\ ui' = r.ui
    /\ UNCHANGED <<devices, mainQ, rom_file>>

\* a batch handler that starts the workers itself, up to its first wait
StartAll(kind) ==
    /\ ui.at = "idle" /\ BatchCount < MaxBatches
    /\ \E order \in Orders(ConnectedPorts) :
          RunBatch(BatchLoop(jobs, workers, starts, order, kind,
                             BatchCount + 1, now))
    /\ UNCHANGED <<frameVars, planVars, cfgVars, scanned, timers, now>>

\* the same handler from the return of wait(1000): the worker of the port is
\* created and the loop goes on
ResumeAll(kind) ==
    /\ ui.at = "batch_wait" /\ ui.kind = kind
    /\ WaitReturns
    /\ \/ RunBatch(BatchLoop(Append(jobs, NewJob(ui.port)),
                             [workers EXCEPT ![ui.port] = Len(jobs) + 1],
                             [starts EXCEPT ![Len(starts)].at = now'],
                             ui.todo, kind, BatchCount, now'))
       \/ /\ Aborts(workers[ui.port])
          /\ UNCHANGED starts
    /\ UNCHANGED <<frameVars, planVars, cfgVars, scanned, timers>>

\* lines 1137-1164 (the user confirms)
start_reset_nor_all ==
    /\ ui.at = "idle"
    /\ StartAll("reset_nor")
start_reset_nor_all_resume ==
    /\ ui.at = "batch_wait"
    /\ ResumeAll("reset_nor")
\* lines 1196-1229 (the user picks a directory)
start_backup_flash_all ==
    /\ ui.at = "idle"
    /\ StartAll("backup_flash")
start_backup_flash_all_resume ==
    /\ ui.at = "batch_wait"
    /\ ResumeAll("backup_flash")

\* a tick of the clock while timers are pending; a timer that is due fires
\* before more time passes in an idle event loop
Tick ==
    /\ ui.at = "idle" /\ now < MaxTime
    /\ timers # {} /\ \A t \in timers : t.due > now
    /\ now' = now + 1
    /\ UNCHANGED <<supVars, frameVars, planVars, cfgVars, scanned, timers, starts>>

\* a device after a successful connect_device
Connected(d) == [d EXCEPT !.connected = TRUE, !.status = "Connected"]

\* the ports that have a worker running when the batch button is pressed
MaxBusy == 1

\* both ports have been found by the scanner; each is connected or not, and
\* a connected one may have a worker of an earlier start on it
InitBatch ==
    /\ devices \in [BatchPorts -> {DeviceInfo, Connected(DeviceInfo)}]
    /\ \E busy \in {b \in SUBSET ConnectedPorts : Cardinality(b) <= MaxBusy} :
          \E order \in Orders(busy) :
             /\ jobs = [i \in DOMAIN order |-> NewJob(order[i])]
             /\ workers = [p \in BatchPorts |->
                             IF p \in busy
                             THEN CHOOSE i \in DOMAIN order : order[i] = p
                             ELSE NoJob]
    /\ mainQ = <<>> /\ ui = UiIdle /\ rom_file = ""
    /\ FrameIdle /\ PlanIdle /\ CfgIdle /\ BatchIdle

NextBatch ==
    \/ select_rom_file
    \/ start_quality_check_all \/ start_production_all
    \/ timer_fire \/ timer_resume
    \/ start_reset_nor_all \/ start_reset_nor_all_resume
    \/ start_backup_flash_all \/ start_backup_flash_all_resume
    \/ Tick
    \/ W_Finish \/ W_Exit \/ on_worker_finished
    \/ cleanup_worker \/ cleanup_worker_resume

SpecBatch == InitBatch /\ [][NextBatch]_vars

\* C23: in every batch operation (QA, production, reset-NOR, backup over all
\* connected devices) each further device's job is started strictly later
\* than the previous one of the batch, at least 0.5 s and at most 1.0 s
\* after it; no two jobs of one batch are started in the same step.
C23_BatchStagger ==
    \A i, j \in DOMAIN starts :
        (/\ i < j
         /\ starts[i].batch = starts[j].batch
         /\ \A k \in DOMAIN starts :
               (i < k /\ k < j) => starts[k].batch # starts[i].batch
         /\ starts[i].at # Pending /\ starts[j].at # Pending) =>
            (starts[j].at - starts[i].at) \in DelayTicks


(* The commands of a production run (Spec) *)

CeilDiv(a, b) == (a + b - 1) \div b

\* the erase loop of this production run has been left normally
ErasePhaseOver ==
    /\ plan = "production"
    /\ \/ pc \in {"program", "program_pass", "program_exit", "verify"}
       \/ TrailCount(trail, "program") > 0
       \/ HasFinished(TRUE)

\* C25: the erase phase of a production run on an image of padded length |I|
\* with sector_size s > 0 issues exactly ceil(|I| / s) sector erases (none for
\* the empty image); the i-th goes to word address ((i * s) mod 0x2000000) >> 1,
\* for increasing i, and all of them come before the first program command.
C25_EraseCommands ==
    /\ [](ErasePhaseOver =>
            /\ sector_size > 0
            /\ TrailCount(trail, "erase") = CeilDiv(file_size, sector_size))
    /\ [](plan = "production" =>
            \A a, b \in DOMAIN trail :
                (trail[a].op = "program" /\ a < b) => trail[b].op # "erase")
    /\ [][(plan = "production" /\
           TrailCount(trail', "erase") > TrailCount(trail, "erase")) =>
            LET i == TrailCount(trail, "erase")
            IN  /\ TrailCount(trail', "erase") = i + 1
                /\ TrailCount(trail, "program") = 0
                /\ access'.op = "erase" /\ access'.unit = "word"
                /\ access'.addr = ((i * sector_size) % segment_size) \div 2
         ]_vars

\* an image of one segment and two bytes has been erased in nine sectors
C25_Witness ==
    /\ plan = "production" /\ pc = "verify"
    /\ rom_len = segment_size + 1 /\ sector_size = 64
    /\ TrailCount(trail, "erase") = 9

\* the j-th chunk of the padded image, filled with 0xFF
ImageChunk(j) ==
    [k \in 1 .. write_chunk_size |->
        LET at == write_chunk_size * j + k - 1
        IN  IF at < rom_len THEN ImageByte(at)
            ELSE IF at < file_size THEN 0 ELSE 255]

\* the program loop of this production run has been left with the image written
ProgramPhaseOver ==
    /\ plan = "production"
    /\ \/ pc = "verify"
       \/ TrailCount(trail, "read") > 0
       \/ HasFinished(TRUE)

\* C26: the program phase issues exactly ceil(|I| / 2048) program commands; the
\* j-th carries byte address (2048 * j) mod 0x2000000 and exactly 2048 data
\* bytes, I[2048j .. 2048j + 2047] with the positions at or past |I| filled
\* with 0xFF.
C26_ProgramCommands ==
    /\ [](ProgramPhaseOver =>
            TrailCount(trail, "program") = CeilDiv(file_size, write_chunk_size))
    /\ [][(plan = "production" /\
           TrailCount(trail', "program") > TrailCount(trail, "program")) =>
            LET j == TrailCount(trail, "program")
                sent == trail'[Len(trail')]
            IN  /\ TrailCount(trail', "program") = j + 1
                /\ sent.op = "program"
                /\ Len(sent.data) = write_chunk_size
                /\ sent.data = ImageChunk(j)
                /\ last_ack' = <<170>> =>
                      /\ access'.op = "program" /\ access'.unit = "byte"
                      /\ access'.addr = (write_chunk_size * j) % segment_size
         ]_vars

\* a one-byte image: one command, 01 00 and the fill
C26_Witness ==
    /\ plan = "production" /\ HasFinished(TRUE)
    /\ rom_len = 1
    /\ TrailCount(trail, "program") = 1
    /\ \E a \in DOMAIN trail :
          trail[a].op = "program" /\ trail[a].data = <<1, 0, 255, 255>>


IsAccess(e) == e.op \in {"erase", "program", "read"}

\* the number of writes of the mapping with first entry key on the trail
MapWrites(key) ==
    LET RECURSIVE count(_)
        count(t) ==
            IF t = <<>> THEN 0
            ELSE (IF Head(t).op = "map" /\ Head(t).key = key
                  THEN Head(t).n ELSE 0) + count(Tail(t))
    IN  count(trail)

\* C27: each of the three phases (erase, program, verify) starts with the
\* identity mapping written; within a phase the mapping [8s .. 8s+7] is
\* written exactly once, immediately before the first access to segment
\* s >= 1; a complete run on an image of more than one and at most two
\* segments writes [8..15] exactly three times, once per phase, each time
\* after the identity mapping of the phase.
C27_MappingSwitches ==
    /\ [](plan = "production" =>
            /\ \A a \in DOMAIN trail :
                  /\ IsAccess(trail[a]) =>
                        /\ a > 1
                        /\ trail[a - 1].op = "map"
                        /\ trail[a - 1].key = 8 * trail[a].key
                        /\ trail[a].key >= 1 =>
                              /\ trail[a - 1].n = 1
                              /\ \E z \in 1 .. a - 2 :
                                    /\ trail[z].op = "map" /\ trail[z].key = 0
                                    /\ \A y \in z + 1 .. a - 2 :
                                          trail[y].op = trail[a].op
                  /\ (trail[a].op = "map" /\ trail[a].key >= 8) =>
                        /\ trail[a].n = 1
                        /\ a < Len(trail) =>
                              /\ IsAccess(trail[a + 1])
                              /\ 8 * trail[a + 1].key = trail[a].key
            /\ \A a, b \in DOMAIN trail :
                  (/\ a < b
                   /\ trail[a].op = "map" /\ trail[b].op = "map"
                   /\ trail[a].key = trail[b].key /\ trail[a].key >= 8) =>
                      \E z \in a + 1 .. b - 1 :
                          trail[z].op = "map" /\ trail[z].key = 0
            /\ (/\ pc = "done" /\ HasFinished(TRUE) /\ verified >= file_size
                /\ file_size > segment_size /\ file_size <= 2 * segment_size) =>
                  /\ MapWrites(8) = 3
                  /\ MapWrites(0) = 3)
    /\ [][(/\ plan = "production"
           /\ <<pc, pc'>> \in {<<"start", "erase">>, <<"erase", "program">>,
                               <<"program_exit", "verify">>}) =>
             /\ mapping' = Identity
             /\ trail' # <<>>
             /\ trail'[Len(trail')].op = "map" /\ trail'[Len(trail')].key = 0
             /\ MapWrites(0)' = MapWrites(0) + 1
         ]_vars

\* a complete run over two segments, with three switches to [8..15]
C27_Witness ==
    /\ plan = "production" /\ pc = "done" /\ HasFinished(TRUE)
    /\ verified >= file_size /\ file_size = segment_size + 2
    /\ MapWrites(8) = 3


\* stop() arrived while the production run was in its program loop or
\* leaving it
CancelledInProgram ==
    /\ plan = "production"
    /\ cancel_at.pc \in {"program", "program_pass", "program_exit"}

\* C28: a production run cancelled in its program phase sends at most one
\* further program command after the flag is set, issues no verify read and
\* ends with Finished{ok=false}; the device keeps what the erases and the
\* program commands before produced (nothing is erased or restored).
C28_ProgramCancel ==
    /\ [](CancelledInProgram =>
            /\ TrailCount(trail, "program") <= cancel_at.programs + 1
            /\ TrailCount(trail, "read") = 0
            /\ pc \notin {"verify"}
            /\ pc = "done" => (HasFinished(FALSE) /\ ~HasFinished(TRUE)))
    /\ [][(CancelledInProgram /\ plan' = "production") =>
            /\ TrailCount(trail', "erase") = TrailCount(trail, "erase")
            /\ flash' # flash =>
                  /\ TrailCount(trail', "program") = cancel_at.programs + 1
                  /\ flash' = ProgramAt(flash, mapping', written % segment_size,
                                        PaddedChunk(written))
         ]_vars

\* stop() came in the middle of a pass: its command was still sent, then
\* the run reported failure
C28_Witness ==
    /\ CancelledInProgram /\ cancel_at.pc = "program_pass"
    /\ pc = "done" /\ HasFinished(FALSE)
    /\ TrailCount(trail, "program") = cancel_at.programs + 1
    /\ last_ack = <<170>>
    /\ written < file_size


(* The quality check (Spec) *)

\* the number of enabled steps, erase-blank and fast counting as one
EnabledSteps ==
    Cardinality({f \in {"enable_sram_test", "enable_full_sram",
                        "enable_ppb_unlock", "enable_ram_flash"} : config[f]})
    + (IF config.enable_flash_erase \/ config.enable_fast_flash THEN 1 ELSE 0)

\* floor((k - 0.5) * 100 / N) and floor(k * 100 / N) for k = 1..N, then 100
QaProgressList(N) ==
    [i \in 1 .. 2 * N |->
        IF i % 2 = 1 THEN (i * 50) \div N ELSE ((i \div 2) * 100) \div N]
    \o <<100>>

\* only the basic SRAM test and the PPB unlock are enabled
SramAndPpbOnly ==
    config = [enable_sram_test |-> TRUE, enable_flash_erase |-> FALSE,
              enable_ppb_unlock |-> TRUE, enable_fast_flash |-> FALSE,
              enable_full_sram |-> FALSE, enable_ram_flash |-> FALSE]

\* a quality check that ran all its enabled steps and reported success
QaPassed ==
    /\ plan = "qa" /\ pc = "done" /\ HasFinished(TRUE)
    /\ ~cancel_at.left

\* C29 as stated: with N >= 1 enabled steps the QA plan emits
\* floor((k - 0.5) * 100 / N) on entering its k-th enabled step and
\* floor(k * 100 / N) on completing it, for k = 1..N in order, and finally
\* 100; with only sram_basic and ppb_unlock enabled and a passing device the
\* Progress sequence is 25, 50, 75, 100 and the run ends with Finished{ok=true}.
C29_QaProgress ==
    QaPassed =>
        /\ ProgressValues = QaProgressList(EnabledSteps)
        /\ SramAndPpbOnly => ProgressValues = <<25, 50, 75, 100>>

\* C29, amended: the same rule; the sequence of the example is 25, 50, 75,
\* 100, 100 (the completion of the last step and the final 100), and a run
\* that nobody cancels emits a prefix of the list of the rule.
C29_QaProgressAmended ==
    /\ QaPassed =>
          /\ ProgressValues = QaProgressList(EnabledSteps)
          /\ SramAndPpbOnly => ProgressValues = <<25, 50, 75, 100, 100>>
    /\ (plan = "qa" /\ cancel_at.pc = "none" /\ EnabledSteps >= 1) =>
          IsPrefix(ProgressValues, QaProgressList(EnabledSteps))

\* the run of the example has passed
C29_Witness ==
    /\ QaPassed /\ SramAndPpbOnly /\ cancel_at.pc = "none"
    /\ Len(ProgressValues) = 5


\* the flag of a step, read from the configuration
StepFlag(step) ==
    IF step = 1 THEN config.enable_sram_test
    ELSE IF step = 2 THEN config.enable_full_sram
    ELSE IF step = 3 THEN config.enable_ppb_unlock
    ELSE IF step = 4 THEN config.enable_flash_erase \/ config.enable_fast_flash
    ELSE config.enable_ram_flash

\* the steps that have sent a command
StepsOnTrail == {trail[a].key : a \in DOMAIN trail}

\* the run has gone past the place of a step in the order
QaPast(step) ==
    \/ pc # "done" /\ QaRank(pc) > step
    \/ pc = "done" /\ HasFinished(TRUE)

\* C30: the steps of a QA run send their commands in the order SRAM basic,
\* SRAM full, PPB unlock, Flash, Backup Flash probe; a step sends commands
\* only when its flag is set, and every step with its flag set that a run
\* (not cancelled) goes past has sent some; the first failing step ends the
\* run with Finished{ok=false} and no command follows; when the PPB unlock is
\* enabled it has completed before any erase command of the Flash step.
C30_QaStepOrder ==
    /\ [](plan = "qa" =>
            /\ \A a, b \in DOMAIN trail : a < b => trail[a].key <= trail[b].key
            /\ \A s \in StepsOnTrail : s \in 1 .. 5 /\ StepFlag(s)
            /\ \A s \in 1 .. 5 :
                  (StepFlag(s) /\ cancel_at.pc = "none" /\ QaPast(s)) =>
                      s \in StepsOnTrail
            /\ HasFinished(FALSE) =>
                  /\ pc = "done"
                  /\ ~HasFinished(TRUE)
                  /\ events[Len(events)] = Finished(FALSE)
            /\ \A a \in DOMAIN trail :
                  (trail[a].op = "flash_erase" /\ config.enable_ppb_unlock) =>
                      /\ \E z \in 1 .. a - 1 : trail[z].op = "ppb"
                      /\ \E e \in DOMAIN events :
                            /\ events[e].type = "Progress"
                            /\ events[e].pct =
                                 (Cardinality({s \in 1 .. 3 : StepFlag(s)}) * 100)
                                    \div EnabledSteps)
    /\ [][(plan = "qa" /\ HasFinished(FALSE)) => trail' = trail]_vars

\* the Flash step failed after an erase, behind a PPB unlock, with the
\* Backup Flash probe still to come
C30_Witness ==
    /\ plan = "qa" /\ pc = "done" /\ HasFinished(FALSE)
    /\ config.enable_ppb_unlock /\ config.enable_ram_flash
    /\ trail # <<>> /\ trail[Len(trail)].op = "flash_erase"
    /\ 3 \in StepsOnTrail /\ 5 \notin StepsOnTrail

----------------------------------------------------------------------------
(* Quality check, fast Flash variant (Spec) *)

\* the byte addresses handed to eraseSector by the fast variant so far
FastErased ==
    UNION {{trail[a].data[k] : k \in 1 .. Len(trail[a].data)} :
              a \in {b \in 1 .. Len(trail) : trail[b].op = "flash_erase"}}

\* a byte address lies in a sector that one of the erase commands erased
InErasedSector(a) ==
    \E e \in FastErased :
        /\ (e \div sector_size) * sector_size <= a
        /\ a < (e \div sector_size) * sector_size + sector_size

\* the region plan is made: the fast variant is erasing or blank-checking
FastPlanned == plan = "qa" /\ pc \in {"qa_fast_erase", "qa_fast_verify"}

\* C31: for every device_size and sector_size the six test regions are the
\* first 4 MiB, the last 4 MiB and four 2 MiB windows that start at a multiple
\* of sector_size inside [4 MiB, device_size - 6 MiB]; every region lies
\* inside the device; every sector of every region is erased before the first
\* blank-check read; and the step passes only after every region was read
\* back as 0xFF.
C31_FastRegions ==
    /\ [](FastPlanned =>
            /\ Len(test_regions) = 6
            /\ test_regions[1] = <<0, 4 * MiB>>
            /\ test_regions[2] = <<device_size - 4 * MiB, device_size>>
            /\ \A i \in 3 .. 6 :
                  /\ test_regions[i][2] = test_regions[i][1] + 2 * MiB
                  /\ test_regions[i][1] % sector_size = 0
                  /\ test_regions[i][1] >= 4 * MiB
                  /\ test_regions[i][1] <= device_size - 6 * MiB
            /\ \A i \in 1 .. 6 :
                  /\ 0 <= test_regions[i][1]
                  /\ test_regions[i][1] < test_regions[i][2]
                  /\ test_regions[i][2] <= device_size)
    /\ []((FastPlanned /\ pc = "qa_fast_verify") =>
            \A i \in 1 .. Len(test_regions) :
               \A a \in test_regions[i][1] .. (test_regions[i][2] - 1) :
                  InErasedSector(a))
    /\ [][(pc = "qa_fast_verify" /\ pc' = "qa_ram") =>
            region > Len(test_regions)]_vars
    /\ [][(pc = "qa_fast_verify" /\ pc' = "done") => HasFinished(FALSE)']_vars

----------------------------------------------------------------------------
(* Reset-NOR commands (Spec) *)

\* the kinds of command on the trail, in order
TrailOps == [k \in 1 .. Len(trail) |-> trail[k].op]

\* the commands of a complete reset-NOR run that erases n sectors
ResetOps(n) ==
    <<"mode", "map", "unlock", "map", "cfi">>
    \o (IF n > 0 THEN <<"erase">> ELSE <<>>) \o <<"read">>

\* the number of sectors of the metadata window
MetaSectors == IF sector_size = 0 THEN 0 ELSE FLASH_METADATA_SIZE \div sector_size

\* the verify read of the reset-NOR run delivered every byte, all 0xFF
ResetReadBlank ==
    /\ trail # <<>> /\ trail[Len(trail)].op = "read"
    /\ trail[Len(trail)].key = ROM_OFF_FLASHMETA \div 2
    /\ Len(trail[Len(trail)].data) = probe_size
    /\ \A k \in 1 .. probe_size : trail[Len(trail)].data[k] = 255

\* C32: the reset-NOR plan issues set-mode(write_enable=1), the identity
\* mapping, the PPB unlock, then exactly 2 MiB / sector_size sector erases at
\* the word addresses of the sector starts of [0x200000, 0x400000), then one
\* read of 512 bytes at word 0x100000; it ends with Finished{ok=true} iff
\* that read delivered 512 bytes that are all 0xFF, with ok=false otherwise.
C32_ResetNor ==
    plan = "reset" =>
        /\ IsPrefix(TrailOps, ResetOps(MetaSectors))
        /\ \A k \in 1 .. Len(trail) :
              /\ trail[k].op = "mode" => trail[k].key = 1 /\ trail[k].n = 1
              /\ trail[k].op = "map" => trail[k].key = 0
              /\ trail[k].op = "erase" =>
                    /\ trail[k].n <= MetaSectors
                    /\ Len(trail[k].data) = trail[k].n
                    /\ \A i \in 1 .. trail[k].n :
                          /\ trail[k].data[i] * 2
                                = ROM_OFF_FLASHMETA + (i - 1) * sector_size
                          /\ trail[k].data[i] * 2
                                < ROM_OFF_FLASHMETA + FLASH_METADATA_SIZE
              /\ trail[k].op = "read" =>
                    /\ trail[k].n = 1
                    /\ TrailCount(trail, "erase") = MetaSectors
        /\ pc = "done" =>
              /\ HasFinished(TRUE) <=> ResetReadBlank
              /\ HasFinished(FALSE) <=> ~ResetReadBlank

----------------------------------------------------------------------------
(* Flash command sequences (SpecCmd) *)

\* a command frame is readRom(addr_word, n)
IsReadRomOf(f, addr_word, n) ==
    /\ Len(f) = 11
    /\ f[1] + 256 * f[2] = 11
    /\ f[3] = 246
    /\ f[4] + 256 * f[5] + 65536 * f[6] + 16777216 * f[7] = addr_word * 2
    /\ f[8] + 256 * f[9] = n

\* the response of the device to poll k delivered a whole word
PollWhole(k) == Len(lastCall.args[k]) = 4
\* that word
PollWord(k) == lastCall.args[k][3] + 256 * lastCall.args[k][4]

\* C33: unlockPPB issues, in this order and with nothing in between, the 32
\* identity-mapping writes, 0xAA to 0x555, 0x55 to 0x2AA, 0xC0 to 0x555, 0x80
\* to 0, 0x30 to 0, then one or more polls (write 0x70 to 0x555, read word 0)
\* ending at the first poll whose value has bit 7 set, then 0x90, 0x00 and
\* 0xF0 to 0; the exit writes are issued only after a poll with bit 7 set.
C33_PpbUnlockOrder ==
    lastCall.op = "unlockPPB" =>
        LET n == lastCall.n
        IN  /\ n >= 1
            /\ Len(wire) = 37 + 2 * n + (IF lastCall.ok THEN 3 ELSE 0)
            /\ \A i \in 0 .. 7 :
                  /\ IsWriteRomOf(wire[4 * i + 1], 16777215, 42328)
                  /\ IsWriteRomOf(wire[4 * i + 2], 16777215, 42328)
                  /\ IsWriteRomOf(wire[4 * i + 3], 16777215, i)
                  /\ IsWriteRomOf(wire[4 * i + 4], 16777215, i)
            /\ IsWriteRomOf(wire[33], 1365, 170)
            /\ IsWriteRomOf(wire[34], 682, 85)
            /\ IsWriteRomOf(wire[35], 1365, 192)
            /\ IsWriteRomOf(wire[36], 0, 128)
            /\ IsWriteRomOf(wire[37], 0, 48)
            /\ \A k \in 1 .. n :
                  /\ IsWriteRomOf(wire[37 + 2 * k - 1], 1365, 112)
                  /\ IsReadRomOf(wire[37 + 2 * k], 0, 2)
            /\ \A k \in 1 .. (n - 1) :
                  PollWhole(k) /\ BitAnd(PollWord(k), 128) = 0
            /\ lastCall.ok <=> (PollWhole(n) /\ BitAnd(PollWord(n), 128) = 128)
            /\ lastCall.ok =>
                  /\ IsWriteRomOf(wire[37 + 2 * n + 1], 0, 144)
                  /\ IsWriteRomOf(wire[37 + 2 * n + 2], 0, 0)
                  /\ IsWriteRomOf(wire[37 + 2 * n + 3], 0, 240)

\* an unlock whose first status is 0xFF7F (bit 7 clear) and whose second is
\* 0x0080
C33_Witness ==
    /\ lastCall.op = "unlockPPB" /\ lastCall.ok /\ lastCall.n = 2
    /\ PollWord(1) = 65407 /\ PollWord(2) = 128
    /\ Len(wire) = 44

\* C34: eraseSector(A) issues the writes 0xAA to 0x555, 0x55 to 0x2AA, 0x80
\* to 0x555, 0xAA to 0x555, 0x55 to 0x2AA, then 0x30 to word A, with no other
\* command between them, then reads word A repeatedly and returns at the
\* first read that yields 0xFFFF and not before.
C34_SectorErase ==
    lastCall.op = "eraseSector" =>
        LET n == Len(wire) - 6
            A == lastCall.addr
        IN  /\ n >= 1 /\ n = lastCall.n
            /\ IsWriteRomOf(wire[1], 1365, 170)
            /\ IsWriteRomOf(wire[2], 682, 85)
            /\ IsWriteRomOf(wire[3], 1365, 128)
            /\ IsWriteRomOf(wire[4], 1365, 170)
            /\ IsWriteRomOf(wire[5], 682, 85)
            /\ IsWriteRomOf(wire[6], A, 48)
            /\ \A k \in 1 .. n : IsReadRomOf(wire[6 + k], A, 2)
            /\ \A k \in 1 .. (n - 1) : PollWhole(k) /\ PollWord(k) # 65535
            /\ lastCall.ok <=> (PollWhole(n) /\ PollWord(n) = 65535)
            /\ (~lastCall.ok /\ ~lastCall.raised) => n = Len(lastCall.args)

\* an erase of the first metadata sector that reads 0x0000, 0x00FF, 0xFFFF
C34_Witness ==
    /\ lastCall.op = "eraseSector" /\ lastCall.ok /\ lastCall.addr = 1048576
    /\ Len(wire) = 9
    /\ PollWord(1) = 0 /\ PollWord(2) = 255 /\ PollWord(3) = 65535

\* the 16-bit value v[j] of a CFI answer, j = 0..9
CfiV(j) == lastCall.respon[2 * j + 3] + 256 * lastCall.respon[2 * j + 4]

\* C36: getRomCFI issues write 0x98 to word 0x55, one read of 20 bytes at
\* word 0x27, write 0xF0 to word 0, in this order, and for every 20-byte
\* answer returns device_size = 2^v[0], buffer_write_bytes = 2^v[3] (0 when
\* v[3] is 0), sector_count = ((v[7] & 0xFF) << 8 | (v[6] & 0xFF)) + 1 and
\* sector_size = ((v[9] & 0xFF) << 8 | (v[8] & 0xFF)) * 256 (SectorUnit is
\* the scaled 256).
C36_CfiQuery ==
    lastCall.op = "getRomCFI" =>
        /\ Len(wire) = 3
        /\ IsWriteRomOf(wire[1], 85, 152)
        /\ IsReadRomOf(wire[2], 39, 20)
        /\ IsWriteRomOf(wire[3], 0, 240)
        /\ Len(lastCall.respon) = 22 =>
              /\ lastCall.ok /\ ~lastCall.raised
              /\ lastCall.ret =
                   << Pow2(CfiV(0)),
                      (BitAnd(CfiV(7), 255) * 256 + BitAnd(CfiV(6), 255)) + 1,
                      (BitAnd(CfiV(9), 255) * 256 + BitAnd(CfiV(8), 255))
                         * SectorUnit,
                      IF CfiV(3) # 0 THEN Pow2(CfiV(3)) ELSE 0 >>

\* a 64 MiB device whose sector fields carry bits above the low byte
C36_Witness ==
    /\ lastCall.op = "getRomCFI" /\ lastCall.ok
    /\ CfiV(0) = 26 /\ CfiV(8) = 511 /\ CfiV(9) = 511 /\ CfiV(6) = 511
    /\ lastCall.ret[1] = 67108864
    /\ lastCall.ret[2] = 256
    /\ lastCall.ret[3] = 65535 * SectorUnit

----------------------------------------------------------------------------
(* Termination of the plans (SpecLive) *)

\* run() has emitted finished_signal and returned
RunOver == pc = "done" /\ (HasFinished(TRUE) \/ HasFinished(FALSE))

\* C35: on a device whose erase and PPB polls eventually report done, every
\* started plan terminates and emits a Finished event; and once the cancel
\* flag of a running plan is set the plan eventually emits Finished, even if
\* the device never reports the pending erase as complete.
C35_PlanTermination ==
    /\ (~EraseHangs) ~> RunOver
    /\ (~running) ~> RunOver

\* the first half of C35 alone
C35_GoodDeviceTerminates == (~EraseHangs) ~> RunOver

----------------------------------------------------------------------------
(* Replaced jobs (SpecSup) *)

\* the step is the return of cleanup_worker(port), called for the completion
\* of an earlier job while the job map holds a later job of the port
CleanupOfEarlier(port) ==
    \/ /\ ui.at = "idle" /\ mainQ # <<>> /\ mainQ' = Tail(mainQ)
       /\ Head(mainQ).type = "Cleanup" /\ Head(mainQ).port = port
       /\ ui'.at = "idle"
       /\ workers[port] \notin {NoJob, Head(mainQ).job}
    \/ /\ ui.at = "cleanup_wait" /\ ui.port = port /\ ui'.at = "idle"
       /\ workers[port] # NoJob

\* C37: a job that replaces another keeps its registration: processing the
\* earlier job's completion removes only the earlier job; the new job stays
\* in the job map with its sinks connected until it completes itself, so its
\* Finished event reaches the observer.
C37_ReplacementKept ==
    [][/\ \A port \in Ports :
            CleanupOfEarlier(port) =>
                /\ workers'[port] = workers[port]
                /\ jobs'[workers[port]].wired
       /\ \A j \in DOMAIN jobs :
            (Executing(j) /\ ~Executing(j)' /\ jobs'[j].emitted
             /\ devices[jobs[j].port].present) =>
                /\ mainQ' # <<>>
                /\ mainQ'[Len(mainQ')].type = "Finished"
                /\ mainQ'[Len(mainQ')].job = j
      ]_vars

----------------------------------------------------------------------------
(* Jobs and the devices they run on (SpecSup) *)

\* the step closes the serial port of p from the scanner's report or the
\* operator's disconnect, while the job of p is running
ClosedUnderJob(p) ==
    /\ on_devices_found \/ disconnect_device
    /\ is_connected(p) /\ ~is_connected(p)'
    /\ workers[p] # NoJob /\ Executing(workers[p])

\* C39: every port with an entry in the job map has a device in the device
\* map; when the scanner reports that a port disappeared, or the operator
\* disconnects it, while its job is running, the job is cancelled and dropped
\* rather than left running on a closed or removed device.
C39_JobsOnKnownDevices ==
    /\ [](\A p \in Ports : workers[p] # NoJob => devices[p].present)
    /\ [][\A p \in Ports :
            ClosedUnderJob(p) =>
                /\ ~jobs'[workers[p]].running
                /\ workers'[p] = NoJob]_vars

----------------------------------------------------------------------------
(* One Finished event per run (Spec) *)

IsFinished(e) == e.type = "Finished"

\* the Finished events the run has emitted
FinishedCount == Len(SelectSeq(events, IsFinished))

\* C38: every run of a plan worker that terminates - by success, failure,
\* exception or cancellation - emits exactly one Finished event, and no Log
\* or Progress event after it: no run holds two Finished events, a Finished
\* event is the last event of its run, a run that has ended holds one, and
\* after it the events of the run never change (the backup that follows a
\* production run is a new run).
C38_OneFinished ==
    /\ [](/\ FinishedCount <= 1
          /\ FinishedCount = 1 =>
                /\ events[Len(events)].type = "Finished"
                /\ pc = "done"
          /\ pc = "done" => FinishedCount = 1)
    /\ [][FinishedCount = 1 =>
            \/ events' = events
            \/ BackupAfterProduction /\ events' = <<>>]_vars

\* a cancelled run that has ended: log lines and progress, then its Finished
C38_Witness ==
    /\ pc = "done" /\ ~running
    /\ FinishedCount = 1
    /\ \E k \in DOMAIN events : events[k].type = "Log"
    /\ \E k \in DOMAIN events : events[k].type = "Progress"
    /\ events[Len(events)] = Finished(FALSE)

----------------------------------------------------------------------------
(* Production: the program chunks and the erased area (Spec) *)

\* the bytes the erase loop of the run has erased: sector_count sectors of
\* sector_size bytes from byte 0
ErasedExtent == sector_size * sector_count

\* C40: every byte address written by a program chunk, its 0xFF tail padding
\* included, lies in a sector that the erase phase erased, for every image
\* length and every sector size the CFI formula returns, and no chunk spans a
\* segment boundary.
C40_ProgramInsideErased ==
    (plan = "production" /\ access.op = "program") =>
        LET first == access.L
            last  == access.L + write_chunk_size - 1
        IN  /\ last < ErasedExtent
            /\ first \div segment_size = last \div segment_size
            /\ write_chunk_size * ((file_size + write_chunk_size - 1)
                                       \div write_chunk_size) <= ErasedExtent

====
